---- MODULE Spec2Model ----
(***************************************************************************)
(* CABAC context models of VTM: the probability model (BinProbModel_Std),  *)
(* the static context-set registration (ContextSetCfg), the context store  *)
(* (CtxStore<BinProbModel_Std>) and the coding context (Ctx), modelled     *)
(* from source/Lib/CommonLib/Contexts.cpp.                                 *)
(***************************************************************************)
EXTENDS Integers, Sequences, FiniteSets, TLC

(* ---------------------------------------------------------------------- *)
(* Program constants                                                      *)
(* ---------------------------------------------------------------------- *)

\* #define CNU 154: 'Context model Not Used'
CNU == 154
\* default window size (Contexts.h)
DWS == 8
\* table count is NUMBER_OF_SLICE_TYPES + 1 (B, P, I and the rate row)
NUMBER_OF_SLICE_TYPES == 3
MAX_QP == 63
\* number of Golomb-Rice adaptation statistics sets copied by Ctx(const Ctx&)
RExt__GOLOMB_RICE_ADAPTATION_STATISTICS_SETS == 4
\* probabilities are fractions of PROB_BITS bits; the first estimate keeps the
\* upper PROB_BITS_0 of them, the second the upper PROB_BITS_1
PROB_BITS == 15
PROB_BITS_0 == 10
PROB_BITS_1 == 14

(* ---------------------------------------------------------------------- *)
(* Integer helpers, as the C++ operators compute them                     *)
(* ---------------------------------------------------------------------- *)

Pow2(n) == 2 ^ n

\* x >> n on int: arithmetic shift, rounds toward minus infinity
SHR(x, n) == x \div Pow2(n)

\* ~(~0u << bits) << shift: a mask of `bits` ones above `shift` zeros
MaskOf(bits, shift) == (Pow2(bits) - 1) * Pow2(shift)

\* x & MaskOf(bits, shift) for a non-negative x
AndField(x, bits, shift) == ((x \div Pow2(shift)) % Pow2(bits)) * Pow2(shift)

\* MASK_0 = 0x7FE0 and MASK_1 = 0x7FFE
MASK_0 == MaskOf(PROB_BITS_0, PROB_BITS - PROB_BITS_0)
MASK_1 == MaskOf(PROB_BITS_1, PROB_BITS - PROB_BITS_1)
AndMASK_0(x) == AndField(x, PROB_BITS_0, PROB_BITS - PROB_BITS_0)
AndMASK_1(x) == AndField(x, PROB_BITS_1, PROB_BITS - PROB_BITS_1)

U8(x)  == x % 256
U16(x) == x % 65536

Clip3(minVal, maxVal, a) == IF a < minVal THEN minVal ELSE IF a > maxVal THEN maxVal ELSE a

RECURSIVE SumSeq(_)
SumSeq(s) == IF s = <<>> THEN 0 ELSE Head(s) + SumSeq(Tail(s))

(* ---------------------------------------------------------------------- *)
(* ProbModelTables::m_inistateToCount (index 0..127 is 1..128 here)       *)
(* ---------------------------------------------------------------------- *)

\* the table with its first two counts exchanged
m_inistateToCount_Exchanged ==
  <<
     647, 614, 681, 718, 756, 797, 839, 884, 932, 982, 1034, 1089, 1148, 1209, 1274, 1342,
     1414, 1490, 1569, 1653, 1742, 1835, 1933, 2037, 2146, 2261, 2382, 2509, 2643, 2785, 2934, 3091,
     3256, 3430, 3614, 3807, 4011, 4225, 4452, 4690, 4941, 5205, 5483, 5777, 6086, 6412, 6755, 7116,
     7497, 7898, 8320, 8766, 9235, 9729, 10249, 10798, 11375, 11984, 12625, 13300, 14012, 14762, 15551, 16384,
     16384, 17216, 18005, 18755, 19467, 20142, 20783, 21392, 21969, 22518, 23038, 23532, 24001, 24447, 24869, 25270,
     25651, 26012, 26355, 26681, 26990, 27284, 27562, 27826, 28077, 28315, 28542, 28756, 28960, 29153, 29337, 29511,
     29676, 29833, 29982, 30124, 30258, 30385, 30506, 30621, 30730, 30834, 30932, 31025, 31114, 31198, 31277, 31353,
     31425, 31493, 31558, 31619, 31678, 31733, 31785, 31835, 31883, 31928, 31970, 32011, 32049, 32086, 32120, 32153
  >>

m_inistateToCount ==
  <<
     614, 647, 681, 718, 756, 797, 839, 884, 932, 982, 1034, 1089, 1148, 1209, 1274, 1342,
     1414, 1490, 1569, 1653, 1742, 1835, 1933, 2037, 2146, 2261, 2382, 2509, 2643, 2785, 2934, 3091,
     3256, 3430, 3614, 3807, 4011, 4225, 4452, 4690, 4941, 5205, 5483, 5777, 6086, 6412, 6755, 7116,
     7497, 7898, 8320, 8766, 9235, 9729, 10249, 10798, 11375, 11984, 12625, 13300, 14012, 14762, 15551, 16384,
     16384, 17216, 18005, 18755, 19467, 20142, 20783, 21392, 21969, 22518, 23038, 23532, 24001, 24447, 24869, 25270,
     25651, 26012, 26355, 26681, 26990, 27284, 27562, 27826, 28077, 28315, 28542, 28756, 28960, 29153, 29337, 29511,
     29676, 29833, 29982, 30124, 30258, 30385, 30506, 30621, 30730, 30834, 30932, 31025, 31114, 31198, 31277, 31353,
     31425, 31493, 31558, 31619, 31678, 31733, 31785, 31835, 31883, 31928, 31970, 32011, 32049, 32086, 32120, 32153
  >>

(* ---------------------------------------------------------------------- *)
(* BinProbModel_Std                                                       *)
(* ---------------------------------------------------------------------- *)

\* a probability model: m_state[0], m_state[1] (uint16_t) and m_rate (uint8_t)
BinProbModel(s0, s1, r) == [state0 |-> s0, state1 |-> s1, rate |-> r]

\* a freshly created model: zero-initialised
BinProbModel_New == BinProbModel(0, 0, 0)

\* IniState with the shift of slope * qp rounding toward zero
IniState_Trunc(qp, initId) ==
  LET slope  == (SHR(initId, 4) * 5) - 45
      offset == (AndField(initId, 4, 0) * 8) - 16
      prod   == slope * qp
  IN  (IF prod < 0 THEN -((-prod) \div 16) ELSE prod \div 16) + offset

\* slope, offset and the initial-state index before clamping
IniState(qp, initId) ==
  LET slope  == (SHR(initId, 4) * 5) - 45
      offset == (AndField(initId, 4, 0) * 8) - 16
  IN  SHR(slope * qp, 4) + offset

\* the index that m_inistateToCount is read at
IniStateIndex(qp, initId) ==
  LET inistate == IniState(qp, initId)
  IN  IF inistate < 0 THEN 0 ELSE IF inistate > 127 THEN 127 ELSE inistate

\* init taking the scaled state index as the count instead of reading the table
BinProbModel_Std_init_Linear(m, qp, initId) ==
  LET p1 == IniStateIndex(qp, initId) * 256
  IN  [m EXCEPT !.state0 = AndMASK_0(p1), !.state1 = AndMASK_1(p1)]

\* init masking both estimates with MASK_0
BinProbModel_Std_init_OneMask(m, qp, initId) ==
  LET p1 == m_inistateToCount[IniStateIndex(qp, initId) + 1]
  IN  [m EXCEPT !.state0 = AndMASK_0(p1), !.state1 = AndMASK_0(p1)]

\* BinProbModel_Std::init: m_rate is left alone
BinProbModel_Std_init(m, qp, initId) ==
  LET p1 == m_inistateToCount[IniStateIndex(qp, initId) + 1]
  IN  [m EXCEPT !.state0 = AndMASK_0(p1), !.state1 = AndMASK_1(p1)]

\* BinProbModel_Std::setLog2WindowSize
setLog2WindowSize(m, log2WindowSize) ==
  LET rate0 == 2 + AndField(SHR(log2WindowSize, 2), 2, 0)
      rate1 == 3 + rate0 + AndField(log2WindowSize, 2, 0)
  IN  [m EXCEPT !.rate = U8(16 * rate0 + rate1)]

\* BinProbModel_Std::update
BinProbModel_Std_update(m, bin) ==
  LET rate0 == SHR(m.rate, 4)
      rate1 == AndField(m.rate, 4, 0)
      d0    == U16(m.state0 - AndMASK_0(SHR(m.state0, rate0)))
      d1    == U16(m.state1 - AndMASK_1(SHR(m.state1, rate1)))
  IN  IF bin = 1
      THEN [m EXCEPT !.state0 = U16(d0 + AndMASK_0(SHR(32767, rate0))),
                     !.state1 = U16(d1 + AndMASK_1(SHR(32767, rate1)))]
      ELSE [m EXCEPT !.state0 = d0, !.state1 = d1]

\* getState / setState: the raw state word
getState(m) == U16(m.state0 + m.state1)
setState(m, pState) ==
  [m EXCEPT !.state0 = AndMASK_0(SHR(pState, 1)),
            !.state1 = AndMASK_1(SHR(pState, 1))]

(* ---------------------------------------------------------------------- *)
(* CtxSet                                                                 *)
(* ---------------------------------------------------------------------- *)

\* CtxSet( uint16_t offset, uint16_t size )
CtxSet(offset, size) == [Offset |-> U16(offset), Size |-> U16(size)]

Min(a, b) == IF a < b THEN a ELSE b
Max(a, b) == IF a > b THEN a ELSE b

\* the loop of CtxSet( std::initializer_list<CtxSet> ): acc is <<minOffset, maxOffset>>
RECURSIVE MergeLoop(_, _)
MergeLoop(ctxSets, acc) ==
  IF ctxSets = <<>> THEN acc
  ELSE MergeLoop(Tail(ctxSets),
                 << Min(acc[1], Head(ctxSets).Offset),
                    Max(acc[2], U16(Head(ctxSets).Offset + Head(ctxSets).Size)) >>)

\* a merge giving the sum of the members' sizes as the size
CtxSet_merge_SumSizes(ctxSets) ==
  LET acc == MergeLoop(ctxSets, << 65535, 0 >>)
  IN  [Offset |-> acc[1], Size |-> U16(SumSeq([k \in 1..Len(ctxSets) |-> ctxSets[k].Size]))]

\* CtxSet( std::initializer_list<CtxSet> ctxSets )
CtxSet_merge(ctxSets) ==
  LET acc == MergeLoop(ctxSets, << 65535, 0 >>)
  IN  [Offset |-> acc[1], Size |-> U16(acc[2] - acc[1])]

(* ---------------------------------------------------------------------- *)
(* ContextSetCfg: the init tables and the registration of context sets    *)
(* ---------------------------------------------------------------------- *)

\* std::vector<uint8_t>::resize( n ): new elements are value-initialised
Resize(v, n) == [i \in 1..n |-> IF i <= Len(v) THEN v[i] ELSE 0]

\* WriteRow with elemId starting at 0 instead of startIdx
WriteRow_FromZero(initTable, startIdx, initSet) ==
  [i \in 1..Len(initTable) |->
     IF i <= Len(initSet) THEN U8(initSet[i]) ELSE initTable[i]]

\* the inner loop of addCtxSet: initTable[elemId] = *elemIter from elemId = startIdx
WriteRow(initTable, startIdx, initSet) ==
  [i \in 1..Len(initTable) |->
     IF i > startIdx /\ i <= startIdx + Len(initSet) THEN U8(initSet[i - startIdx])
     ELSE initTable[i]]

\* the outer loop of addCtxSet from row setId on (rows and tables are 1-based here);
\* a row whose size differs from numValues fails the CHECK and leaves the loop with
\* the tables as they are by then
RECURSIVE addCtxSet_rows(_, _, _, _, _)
addCtxSet_rows(tables, initSet2d, setId, startIdx, numValues) ==
  IF setId > Len(initSet2d) \/ setId > Len(tables)
  THEN [tables |-> tables, ok |-> TRUE]
  ELSE IF Len(initSet2d[setId]) # numValues
  THEN [tables |-> tables, ok |-> FALSE]
  ELSE addCtxSet_rows(
         [tables EXCEPT ![setId] =
            WriteRow(Resize(@, startIdx + numValues), startIdx, initSet2d[setId])],
         initSet2d, setId + 1, startIdx, numValues)

\* addCtxSet returning the number of rows as the size of the set
addCtxSet_RowCount(tables, initSet2d) ==
  LET startIdx  == Len(tables[1])
      numValues == Len(initSet2d[1])
      r         == addCtxSet_rows(tables, initSet2d, 1, startIdx, numValues)
  IN  [tables |-> r.tables, ok |-> r.ok, set |-> CtxSet(startIdx, Len(initSet2d))]

\* ContextSetCfg::addCtxSet: the tables after the call, whether it returned, and
\* the CtxSet it returns
addCtxSet(tables, initSet2d) ==
  LET startIdx  == Len(tables[1])
      numValues == Len(initSet2d[1])
      r         == addCtxSet_rows(tables, initSet2d, 1, startIdx, numValues)
  IN  [tables |-> r.tables, ok |-> r.ok, set |-> CtxSet(startIdx, numValues)]

\* sm_InitTables(NUMBER_OF_SLICE_TYPES + 1): four empty tables
sm_InitTables_New == [t \in 1..(NUMBER_OF_SLICE_TYPES + 1) |-> <<>>]

\* ContextSetCfg::getInitTable: the CHECK, and the table returned
\* (initId is converted to unsigned: a negative id becomes one of at least 2^31,
\* which is above any table count)
\* the CHECK comparing the id with the number of slice types instead of the number of tables
getInitTable_ok_SliceTypes(tables, initId) ==
  ~(initId < 0 \/ initId >= NUMBER_OF_SLICE_TYPES)
getInitTable_ok(tables, initId) == ~(initId < 0 \/ initId >= Len(tables))
getInitTable(tables, initId) == tables[initId + 1]

\* the registrations of the source (name and the rows handed to addCtxSet)
SplitFlag ==
  [name |-> "SplitFlag",
   rows |-> << << 122, 124, 141, 108, 125, 156, 138, 126, 143 >>,
               << 93, 139, 171, 124, 125, 141, 139, 141, 158 >>,
               << 138, 154, 172, 124, 140, 142, 154, 127, 175 >>,
               << 9, 13, 8, 8, 13, 12, 5, 10, 12 >> >>]
SplitQtFlag ==
  [name |-> "SplitQtFlag",
   rows |-> << << 138, 140, 142, 136, 138, 140 >>,
               << 139, 126, 142, 107, 138, 125 >>,
               << 139, 125, 127, 136, 153, 126 >>,
               << 0, 8, 8, 12, 12, 8 >> >>]
SplitHvFlag ==
  [name |-> "SplitHvFlag",
   rows |-> << << 154, 168, 155, 139, 155 >>,
               << 169, 168, 170, 153, 170 >>,
               << 154, 168, 140, 153, 169 >>,
               << 10, 9, 9, 8, 8 >> >>]
Split12Flag ==
  [name |-> "Split12Flag",
   rows |-> << << 154, 140, 154, 140 >>,
               << 169, 155, 154, 140 >>,
               << 154, 170, 154, 170 >>,
               << 12, 12, 12, 12 >> >>]
SkipFlag ==
  [name |-> "SkipFlag",
   rows |-> << << 197, 214, 216 >>,
               << 197, 198, 185 >>,
               << 40, 138, 154 >>,
               << 5, 8, 8 >> >>]
SaoMergeFlag ==
  [name |-> "SaoMergeFlag",
   rows |-> << << 47 >>, << 244 >>, << 199 >>, << 0 >> >>]
SaoTypeIdx ==
  [name |-> "SaoTypeIdx",
   rows |-> << << 47 >>, << 95 >>, << 95 >>, << 0 >> >>]

\* a registration whose third row is one value short: it fails the CHECK of addCtxSet
ShortRowSet ==
  [name |-> "ShortRowSet",
   rows |-> << << CNU, CNU >>, << CNU, CNU >>, << CNU >>, << DWS, DWS >> >>]

\* the registrations a run draws from; each static initialiser runs once
GroupInputs ==
  { SplitFlag, SplitQtFlag, SplitHvFlag, Split12Flag, SkipFlag,
    SaoMergeFlag, SaoTypeIdx, ShortRowSet }

\* the first registrations in the order of the source
SourceOrder == << SplitFlag, SplitQtFlag, SplitHvFlag, Split12Flag, SkipFlag >>

(* ---------------------------------------------------------------------- *)
(* CtxStore<BinProbModel_Std> and Ctx                                     *)
(* ---------------------------------------------------------------------- *)

\* a store: the vector m_CtxBuffer and the pointer m_Ctx, which names the Ctx
\* object whose buffer it points into (or nullptr)
\* CtxStore()
CtxStore_New == [m_CtxBuffer |-> << >>, m_Ctx |-> "nullptr"]

\* a live constructor that reserves the contexts without creating them
CtxStore_live_Reserve(self, numberOfContexts) ==
  [m_CtxBuffer |-> << >>, m_Ctx |-> self]

\* CtxStore( bool dummy )
CtxStore_live(self, numberOfContexts) ==
  [m_CtxBuffer |-> [k \in 1..numberOfContexts |-> BinProbModel_New], m_Ctx |-> self]

\* a copy constructor that copies the pointer of the source as well
CtxStore_copy_Alias(self, ctxStore) ==
  [m_CtxBuffer |-> ctxStore.m_CtxBuffer, m_Ctx |-> ctxStore.m_Ctx]

\* CtxStore( const CtxStore& ctxStore )
CtxStore_copy(self, ctxStore) ==
  [m_CtxBuffer |-> ctxStore.m_CtxBuffer, m_Ctx |-> self]

\* CtxStore::init with the CHECKs of getInitTable only, the two size CHECKs left out
CtxStore_init_ok_NoSize(store, tables, initId) ==
  /\ getInitTable_ok(tables, initId)
  /\ getInitTable_ok(tables, NUMBER_OF_SLICE_TYPES)

\* the two CHECKs of CtxStore::init (and the one of getInitTable)
CtxStore_init_ok(store, tables, initId) ==
  /\ getInitTable_ok(tables, initId)
  /\ ~(Len(store.m_CtxBuffer) # Len(getInitTable(tables, initId)))
  /\ getInitTable_ok(tables, NUMBER_OF_SLICE_TYPES)
  /\ ~(Len(store.m_CtxBuffer) # Len(getInitTable(tables, NUMBER_OF_SLICE_TYPES)))

\* CtxStore::init without the Clip3 of qp
CtxStore_init_NoClip(store, tables, qp, initId) ==
  LET initTable     == getInitTable(tables, initId)
      rateInitTable == getInitTable(tables, NUMBER_OF_SLICE_TYPES)
  IN  [store EXCEPT !.m_CtxBuffer =
         [k \in 1..Len(@) |->
            setLog2WindowSize(BinProbModel_Std_init(@[k], qp, initTable[k]),
                              rateInitTable[k])]]

\* CtxStore::init that leaves contexts alone that were initialised before
CtxStore_init_Once(store, tables, qp, initId) ==
  LET initTable     == getInitTable(tables, initId)
      rateInitTable == getInitTable(tables, NUMBER_OF_SLICE_TYPES)
      clippedQP     == Clip3(0, MAX_QP, qp)
  IN  [store EXCEPT !.m_CtxBuffer =
         [k \in 1..Len(@) |->
            IF @[k].state1 # 0 THEN @[k]
            ELSE setLog2WindowSize(BinProbModel_Std_init(@[k], clippedQP, initTable[k]),
                                   rateInitTable[k])]]

\* CtxStore::init, the loop after the CHECKs
CtxStore_init(store, tables, qp, initId) ==
  LET initTable     == getInitTable(tables, initId)
      rateInitTable == getInitTable(tables, NUMBER_OF_SLICE_TYPES)
      clippedQP     == Clip3(0, MAX_QP, qp)
  IN  [store EXCEPT !.m_CtxBuffer =
         [k \in 1..Len(@) |->
            setLog2WindowSize(BinProbModel_Std_init(@[k], clippedQP, initTable[k]),
                              rateInitTable[k])]]

\* CtxStore::setWinSizes
CtxStore_setWinSizes_ok(store, log2WindowSizes) ==
  ~(Len(store.m_CtxBuffer) # Len(log2WindowSizes))
CtxStore_setWinSizes(store, log2WindowSizes) ==
  [store EXCEPT !.m_CtxBuffer =
     [k \in 1..Len(@) |-> setLog2WindowSize(@[k], log2WindowSizes[k])]]

\* loadPStates reading the first entry of the vector for every context
CtxStore_loadPStates_First(store, pStates) ==
  [store EXCEPT !.m_CtxBuffer = [k \in 1..Len(@) |-> setState(@[k], pStates[1])]]

\* CtxStore::loadPStates
CtxStore_loadPStates_ok(store, pStates) ==
  ~(Len(store.m_CtxBuffer) # Len(pStates))
CtxStore_loadPStates(store, pStates) ==
  [store EXCEPT !.m_CtxBuffer = [k \in 1..Len(@) |-> setState(@[k], pStates[k])]]

\* savePStates without the resize: it writes the entries the vector already has
CtxStore_savePStates_NoResize(store, pStates) ==
  [k \in 1..Len(pStates) |->
     IF k <= Len(store.m_CtxBuffer) THEN getState(store.m_CtxBuffer[k]) ELSE pStates[k]]

\* CtxStore::savePStates: the vector after the call (resized, then overwritten)
CtxStore_savePStates(store, pStates) ==
  [k \in 1..Len(store.m_CtxBuffer) |-> getState(store.m_CtxBuffer[k])]

\* a Ctx object; alive is FALSE before its constructor ran
NoCtx ==
  [alive |-> FALSE, m_BPMType |-> "BPM_Undefined", m_CtxStore_Std |-> CtxStore_New,
   m_GRAdaptStats |-> << >>]

\* Ctx::Ctx(): m_GRAdaptStats is not initialised, gr is what the memory holds
Ctx_New(gr) ==
  [alive |-> TRUE, m_BPMType |-> "BPM_Undefined", m_CtxStore_Std |-> CtxStore_New,
   m_GRAdaptStats |-> gr]

\* Ctx::Ctx( const BinProbModel_Std* dummy ): m_GRAdaptStats is not initialised
Ctx_Std(self, numberOfContexts, gr) ==
  [alive |-> TRUE, m_BPMType |-> "BPM_Std",
   m_CtxStore_Std |-> CtxStore_live(self, numberOfContexts), m_GRAdaptStats |-> gr]

\* a copy constructor without the memcpy of m_GRAdaptStats
Ctx_copy_NoStats(self, ctx, gr) ==
  [alive |-> TRUE, m_BPMType |-> ctx.m_BPMType,
   m_CtxStore_Std |-> CtxStore_copy(self, ctx.m_CtxStore_Std),
   m_GRAdaptStats |-> gr]

\* Ctx::Ctx( const Ctx& ctx ); gr is what the memory of the new object holds
Ctx_copy(self, ctx, gr) ==
  [alive |-> TRUE, m_BPMType |-> ctx.m_BPMType,
   m_CtxStore_Std |-> CtxStore_copy(self, ctx.m_CtxStore_Std),
   m_GRAdaptStats |-> [k \in 1..RExt__GOLOMB_RICE_ADAPTATION_STATISTICS_SETS |->
                         ctx.m_GRAdaptStats[k]]]

(* ---------------------------------------------------------------------- *)
(* State                                                                  *)
(* ---------------------------------------------------------------------- *)

VARIABLES
  sm_InitTables,     \* ContextSetCfg::sm_InitTables: four sequences of uint8_t
  NumberOfContexts,  \* ContextSetCfg::NumberOfContexts (0 until its initialiser runs)
  regPc,             \* static initialisation: "registering", "done" or "aborted"
  regLog,            \* the addCtxSet calls that returned: name, rows, returned set
  regFail,           \* the addCtxSet call that threw, with the tables before it
  merged,            \* the last CtxSet built from a list of sets, with its members
  ctxs,              \* the Ctx objects
  lastOp,            \* the last operation on a Ctx object and its arguments
  probStates,        \* the vector savePStates wrote last
  hist,              \* per Ctx: how it was constructed, its last init and the bins since
  nOps,              \* number of operations on Ctx objects so far
  pm,                \* a single BinProbModel_Std
  pmCall,            \* the arguments of the last init of pm and the index it read
  nBins,             \* number of bins pm was updated with since its last init
  is,                \* the IntraSearch object: its flag, pointers and buffers
  est,               \* m_CABACEstimator->getCtx(): the context of the CABAC estimator
  frame              \* the running search function: position, locals, saved contexts

regVars   == << sm_InitTables, NumberOfContexts, regPc, regLog, regFail, merged >>
storeVars == << ctxs, lastOp, probStates, hist, nOps >>
pmVars    == << pm, pmCall, nBins >>
isVars    == << is, est, frame >>
vars      == << regVars, storeVars, pmVars, isVars >>

None == [op |-> "none"]

\* no IntraSearch object and no search is followed
IsIdle == /\ is = None /\ est = None /\ frame = None

(* ---------------------------------------------------------------------- *)
(* Static initialisation of ContextSetCfg                                 *)
(* ---------------------------------------------------------------------- *)

\* at most MaxRegs registrations are followed
MaxRegs == 5

RegisteredNames == { regLog[i].name : i \in 1..Len(regLog) }

\* const CtxSet ContextSetCfg::X = ContextSetCfg::addCtxSet({...})
Register(g) ==
  /\ regPc = "registering"
  /\ Len(regLog) < MaxRegs
  /\ g.name \notin RegisteredNames
  /\ LET r == addCtxSet(sm_InitTables, g.rows)
     IN  /\ sm_InitTables' = r.tables
         /\ IF r.ok
            THEN /\ regLog' = Append(regLog, [name |-> g.name, rows |-> g.rows, set |-> r.set])
                 /\ UNCHANGED << regPc, regFail >>
            ELSE /\ regPc' = "aborted"
                 /\ regFail' = [op |-> "addCtxSet", name |-> g.name, rows |-> g.rows,
                                before |-> sm_InitTables]
                 /\ UNCHANGED regLog
  /\ UNCHANGED << NumberOfContexts, merged, storeVars, pmVars >>
  /\ UNCHANGED isVars

\* NumberOfContexts taken from sm_InitTables.size() instead of sm_InitTables[0].size()
NumberOfContexts_TableCount(tables) == Len(tables)

\* const unsigned ContextSetCfg::NumberOfContexts = (unsigned)sm_InitTables[0].size()
NumberOfContexts_init(tables) == Len(tables[1])

SetNumberOfContexts ==
  /\ regPc = "registering"
  /\ NumberOfContexts' = NumberOfContexts_init(sm_InitTables)
  /\ regPc' = "done"
  /\ UNCHANGED << sm_InitTables, regLog, regFail, merged, storeVars, pmVars >>
  /\ UNCHANGED isVars

\* lists of at most two registered sets (positions in regLog)
MemberLists ==
  { <<>> } \cup { << i >> : i \in 1..Len(regLog) }
           \cup { p \in (1..Len(regLog)) \X (1..Len(regLog)) : p[1] < p[2] }

\* combined sets, as const CtxSet ContextSetCfg::Sao = { SaoMergeFlag, SaoTypeIdx };
\* the initialiser runs once, after that of NumberOfContexts
BuildMerged(members) ==
  /\ regPc = "done"
  /\ merged = None
  /\ merged' = [op |-> "merge",
                members |-> members,
                set |-> CtxSet_merge([k \in 1..Len(members) |-> regLog[members[k]].set])]
  /\ UNCHANGED << sm_InitTables, NumberOfContexts, regPc, regLog, regFail, storeVars, pmVars >>
  /\ UNCHANGED isVars

\* the Ctx objects of a run
Objs == { "ctxA", "ctxB" }

\* what the memory of a new object may hold where m_GRAdaptStats lies
GRInputs == { << 0, 0, 0, 0 >>, << 3, 0, 1, 2 >> }

NoHist == [origin |-> "none", ops |-> << >>]

StoreIdle ==
  /\ ctxs = [o \in Objs |-> NoCtx]
  /\ lastOp = None
  /\ probStates = << >>
  /\ hist = [o \in Objs |-> NoHist]
  /\ nOps = 0

\* the slice's context ctxA is constructed, ctxB is not yet
StoreStart ==
  /\ \E gr \in GRInputs :
       ctxs = [o \in Objs |-> IF o = "ctxA" THEN Ctx_Std(o, NumberOfContexts, gr) ELSE NoCtx]
  /\ lastOp = [op |-> "construct", obj |-> "ctxA"]
  /\ probStates = << >>
  /\ hist = [o \in Objs |-> IF o = "ctxA" THEN [origin |-> "real", ops |-> << >>] ELSE NoHist]
  /\ nOps = 0
PmIdle    == /\ pm = BinProbModel_New /\ pmCall = None /\ nBins = 0

InitReg ==
  /\ sm_InitTables = sm_InitTables_New
  /\ NumberOfContexts = 0
  /\ regPc = "registering"
  /\ regLog = << >>
  /\ regFail = None
  /\ merged = None
  /\ StoreIdle
  /\ PmIdle
  /\ IsIdle

NextReg ==
  \/ \E g \in GroupInputs : Register(g)
  \/ SetNumberOfContexts
  \/ \E members \in MemberLists : BuildMerged(members)

SpecReg == InitReg /\ [][NextReg]_vars

(* ---------------------------------------------------------------------- *)
(* Properties of the registration                                         *)
(* ---------------------------------------------------------------------- *)

\* number of values in the first row of each call that returned
RegSizes == [i \in 1..Len(regLog) |-> Len(regLog[i].rows[1])]

RegInSourceOrder ==
  /\ Len(regLog) = Len(SourceOrder)
  /\ \A i \in 1..Len(regLog) : regLog[i].name = SourceOrder[i].name

\* C8: the set returned by each addCtxSet call has Offset equal to the sum of the
\* sizes of all earlier registrations and Size equal to the number of values in
\* the call's first row, so the returned ranges tile [0, total) in registration
\* order; in the order of the source SplitFlag is {0,9}, SplitQtFlag {9,6},
\* SplitHvFlag {15,5}, Split12Flag {20,4} and SkipFlag {24,3}.
C8_SequentialOffsets ==
  /\ \A i \in 1..Len(regLog) :
       /\ regLog[i].set.Offset = SumSeq(SubSeq(RegSizes, 1, i - 1))
       /\ regLog[i].set.Size = Len(regLog[i].rows[1])
       /\ i > 1 => regLog[i].set.Offset = regLog[i-1].set.Offset + regLog[i-1].set.Size
  /\ (regLog # << >> /\ regPc # "aborted") =>
       regLog[Len(regLog)].set.Offset + regLog[Len(regLog)].set.Size = Len(sm_InitTables[1])
  /\ RegInSourceOrder =>
       [i \in 1..5 |-> << regLog[i].set.Offset, regLog[i].set.Size >>] =
         << <<0, 9>>, <<9, 6>>, <<15, 5>>, <<20, 4>>, <<24, 3>> >>

C8_Witness ==
  /\ RegInSourceOrder
  /\ regLog[5].name = "SkipFlag"
  /\ regLog[5].set = [Offset |-> 24, Size |-> 3]

\* C9: for every registered set {Offset, Size}, every table id r in 0..3 and every
\* i < Size, getInitTable(r)[Offset + i] is the i-th value of row r of that
\* registration, whatever was registered later; for SkipFlag in the order of the
\* source the four rows read back {197,214,216}, {197,198,185}, {40,138,154}, {5,8,8}.
C9_RoundTrip ==
  /\ \A i \in 1..Len(regLog) : \A r \in 0..3 : \A k \in 0..(regLog[i].set.Size - 1) :
       /\ getInitTable_ok(sm_InitTables, r)
       /\ regLog[i].set.Offset + k < Len(getInitTable(sm_InitTables, r))
       /\ getInitTable(sm_InitTables, r)[regLog[i].set.Offset + k + 1] = regLog[i].rows[r + 1][k + 1]
  /\ RegInSourceOrder =>
       [r \in 1..4 |-> SubSeq(getInitTable(sm_InitTables, r - 1), 25, 27)] =
         << <<197, 214, 216>>, <<197, 198, 185>>, <<40, 138, 154>>, <<5, 8, 8>> >>

C9_Witness ==
  /\ RegInSourceOrder
  /\ SubSeq(getInitTable(sm_InitTables, 2), 25, 27) = <<40, 138, 154>>
  /\ SubSeq(getInitTable(sm_InitTables, 0), 1, 2) = <<122, 124>>

\* C10: as long as no registration call failed, the four init tables have one and
\* the same length, the sum of the sizes of the registered sets; once the
\* registration is complete NumberOfContexts is that length, also after a merged
\* set was built.
C10_TableLengths ==
  /\ regPc # "aborted" =>
       \A t \in 1..(NUMBER_OF_SLICE_TYPES + 1) : Len(sm_InitTables[t]) = SumSeq(RegSizes)
  /\ regPc = "done" =>
       /\ NumberOfContexts = SumSeq(RegSizes)
       /\ \A t \in 1..(NUMBER_OF_SLICE_TYPES + 1) : NumberOfContexts = Len(sm_InitTables[t])

C10_Witness ==
  /\ regPc = "done"
  /\ merged # None
  /\ Len(merged.members) = 2
  /\ Len(regLog) >= 3
  /\ NumberOfContexts = SumSeq(RegSizes)
  /\ NumberOfContexts >= 3

(* ---------------------------------------------------------------------- *)
(* BinProbModel_Std::init as a function of (qp, initId)                   *)
(* ---------------------------------------------------------------------- *)

\* the QPs init is called with (CtxStore::init clips to 0..MAX_QP)
QpRange == 0..MAX_QP
\* the 8-bit init values
InitValues == 0..255
\* states a model may be in before the call
PriorModels == { BinProbModel_New, BinProbModel(32736, 32766, 89) }

InitFn ==
  /\ sm_InitTables = sm_InitTables_New
  /\ NumberOfContexts = 0
  /\ regPc = "done"
  /\ regLog = << >>
  /\ regFail = None
  /\ merged = None
  /\ StoreIdle
  /\ pm \in PriorModels
  /\ nBins = 0
  /\ \E qp \in QpRange, initId \in InitValues :
       pmCall = [op |-> "pending", qp |-> qp, initId |-> initId]
  /\ IsIdle

\* m.init( qp, initId )
PM_init ==
  /\ pmCall.op = "pending"
  /\ pm' = BinProbModel_Std_init(pm, pmCall.qp, pmCall.initId)
  /\ pmCall' = [op |-> "init", qp |-> pmCall.qp, initId |-> pmCall.initId,
                index |-> IniStateIndex(pmCall.qp, pmCall.initId)]
  /\ UNCHANGED << nBins, regVars, storeVars >>
  /\ UNCHANGED isVars

NextFn == PM_init

SpecFn == InitFn /\ [][NextFn]_vars

\* C4: init(qp, initValue) reads m_inistateToCount at the index
\* clamp(((slope * qp) >> 4) + offset, 0, 127) with slope = (initValue >> 4) * 5 - 45,
\* offset = (initValue & 15) * 8 - 16 and the shift rounding toward minus
\* infinity, for every qp in 0..MAX_QP and every 8-bit initValue; the index is in
\* 0..127 and both estimates are the count read there, cut to their precision.
C4_InitIndex ==
  pmCall.op = "init" =>
    LET slope  == (pmCall.initId \div 16) * 5 - 45
        offset == (pmCall.initId % 16) * 8 - 16
        count  == m_inistateToCount[pmCall.index + 1]
    IN  /\ pmCall.index \in 0..127
        /\ \E raw \in -256..256 :
             /\ 16 * (raw - offset) <= slope * pmCall.qp
             /\ slope * pmCall.qp < 16 * (raw - offset) + 16
             /\ pmCall.index = (IF raw < 0 THEN 0 ELSE IF raw > 127 THEN 127 ELSE raw)
        /\ pm.state0 = count - (count % 32)
        /\ pm.state1 = count - (count % 2)

\* a negative product that the shift rounds down, with an index that is not clamped
C4_Witness ==
  /\ pmCall.op = "init"
  /\ ((pmCall.initId \div 16) * 5 - 45) * pmCall.qp < 0
  /\ (((pmCall.initId \div 16) * 5 - 45) * pmCall.qp) % 16 # 0
  /\ pmCall.index \in 1..126

MaxBins == 7

\* window sizes of the rate rows: the smallest, the default and the largest
WinInputs == { 0, DWS, 13 }
\* inputs of a re-initialisation
ReinitQps == { 32 }
ReinitValues == { 40, 216 }
\* the first initialisation of the context draws from all QPs and init values
FirstInit == pmCall = None /\ nBins = 0

InitPM ==
  /\ sm_InitTables = sm_InitTables_New
  /\ NumberOfContexts = 0
  /\ regPc = "done"
  /\ regLog = << >>
  /\ regFail = None
  /\ merged = None
  /\ StoreIdle
  /\ PmIdle
  /\ IsIdle

\* the loop body of CtxStore::init for one context:
\* m_CtxBuffer[k].init( clippedQP, initTable[k] ); m_CtxBuffer[k].setLog2WindowSize( rateInitTable[k] )
Slot_init(qp, initId, w) ==
  /\ pm' = setLog2WindowSize(BinProbModel_Std_init(pm, qp, initId), w)
  /\ pmCall' = [op |-> "inited"]
  /\ nBins' = 0
  /\ UNCHANGED << regVars, storeVars >>
  /\ UNCHANGED isVars

\* m_CtxBuffer[k].update( bin )
Slot_update(bin) ==
  /\ nBins < MaxBins
  /\ pm' = BinProbModel_Std_update(pm, bin)
  /\ nBins' = nBins + 1
  /\ UNCHANGED << pmCall, regVars, storeVars >>
  /\ UNCHANGED isVars

NextPM ==
  \/ \E qp \in (IF FirstInit THEN QpRange ELSE ReinitQps),
        initId \in (IF FirstInit THEN InitValues ELSE ReinitValues),
        w \in WinInputs : Slot_init(qp, initId, w)
  \/ \E bin \in {0, 1} : Slot_update(bin)

SpecPM == InitPM /\ [][NextPM]_vars

MaxProb == 2 ^ PROB_BITS

\* C6: once a context was initialised, both sub-estimates stay strictly
\* between 0 and the maximum probability 2^15 under any sequence of bins and
\* re-initialisations; this includes every state produced by init alone.
C6_StrictlyInterior ==
  pmCall.op = "inited" =>
    /\ 0 < pm.state0 /\ pm.state0 < MaxProb
    /\ 0 < pm.state1 /\ pm.state1 < MaxProb

\* a run of bins drove the first estimate below the smallest and (in another
\* state) above the largest count of the table
C6_Witness ==
  /\ pmCall.op = "inited"
  /\ nBins = MaxBins
  /\ pm.state0 < 200


(* ---------------------------------------------------------------------- *)
(* Operations on Ctx objects, after static initialisation                 *)
(* ---------------------------------------------------------------------- *)

\* at most MaxOps operations on Ctx objects are followed
MaxOps == 4

\* static initialisation of a sequence of registrations
RECURSIVE RegisterAll(_, _, _)
RegisterAll(tables, log, groups) ==
  IF groups = << >> THEN [tables |-> tables, log |-> log]
  ELSE LET r == addCtxSet(tables, Head(groups).rows)
       IN  RegisterAll(r.tables,
                       Append(log, [name |-> Head(groups).name, rows |-> Head(groups).rows,
                                    set |-> r.set]),
                       Tail(groups))

\* the stores are followed with the three contexts of SkipFlag registered
StoreGroups == << SkipFlag >>
StaticInit == RegisterAll(sm_InitTables_New, << >>, StoreGroups)

\* slice QPs, below, inside and above 0..MAX_QP
QpInputs == { -1, 32, 64 }
\* init ids: I and B tables, and one id past the tables
InitIdInputs == { 0, 2, 4 }
\* the context that bins are coded with: the first of SkipFlag
CtxIdInputs == { 0 }
\* window size vectors: the default for every context, and one of the wrong length
WinVectors == { [k \in 1..NumberOfContexts |-> DWS], << DWS >> }

Init ==
  /\ sm_InitTables = StaticInit.tables
  /\ NumberOfContexts = NumberOfContexts_init(StaticInit.tables)
  /\ regPc = "done"
  /\ regLog = StaticInit.log
  /\ regFail = None
  /\ merged = None
  /\ StoreStart
  /\ PmIdle
  /\ IsIdle

Step(o) == /\ nOps < MaxOps /\ nOps' = nOps + 1

\* Ctx ctx;
Construct_default(o, gr) ==
  /\ ~ctxs[o].alive
  /\ Step(o)
  /\ ctxs' = [ctxs EXCEPT ![o] = Ctx_New(gr)]
  /\ hist' = [hist EXCEPT ![o] = [origin |-> "default", ops |-> << >>]]
  /\ lastOp' = [op |-> "construct", obj |-> o]
  /\ UNCHANGED << probStates, regVars, pmVars >>
  /\ UNCHANGED isVars

\* Ctx ctx( BinProbModel_Std* );
Construct_real(o, gr) ==
  /\ ~ctxs[o].alive
  /\ Step(o)
  /\ ctxs' = [ctxs EXCEPT ![o] = Ctx_Std(o, NumberOfContexts, gr)]
  /\ hist' = [hist EXCEPT ![o] = [origin |-> "real", ops |-> << >>]]
  /\ lastOp' = [op |-> "construct", obj |-> o]
  /\ UNCHANGED << probStates, regVars, pmVars >>
  /\ UNCHANGED isVars

\* Ctx ctx( src );
Construct_copy(o, src, gr) ==
  /\ ~ctxs[o].alive
  /\ ctxs[src].alive
  /\ Step(o)
  /\ ctxs' = [ctxs EXCEPT ![o] = Ctx_copy(o, ctxs[src], gr)]
  /\ hist' = [hist EXCEPT ![o] = [origin |-> src, ops |-> hist[src].ops]]
  /\ lastOp' = [op |-> "copy", obj |-> o, src |-> src]
  /\ UNCHANGED << probStates, regVars, pmVars >>
  /\ UNCHANGED isVars

\* an init that fits the init table to the size of the store instead of failing
Store_init_FitsTable(o, qp, initId) ==
  /\ ctxs[o].alive
  /\ Step(o)
  /\ getInitTable_ok(sm_InitTables, initId)
  /\ sm_InitTables' = [sm_InitTables EXCEPT ![initId + 1] = Resize(@, Len(ctxs[o].m_CtxStore_Std.m_CtxBuffer)),
                                            ![NUMBER_OF_SLICE_TYPES + 1] = Resize(@, Len(ctxs[o].m_CtxStore_Std.m_CtxBuffer))]
  /\ ctxs' = [ctxs EXCEPT ![o].m_CtxStore_Std = CtxStore_init(@, sm_InitTables', qp, initId)]
  /\ hist' = [hist EXCEPT ![o].ops = << [qp |-> qp, initId |-> initId] >>]
  /\ lastOp' = [op |-> "init", obj |-> o, qp |-> qp, initId |-> initId, ok |-> TRUE]
  /\ UNCHANGED << probStates, NumberOfContexts, regPc, regLog, regFail, merged, pmVars >>
  /\ UNCHANGED isVars

\* ctx.init( qp, initId ) on the store of o
Store_init(o, qp, initId) ==
  /\ ctxs[o].alive
  /\ Step(o)
  /\ LET ok == CtxStore_init_ok(ctxs[o].m_CtxStore_Std, sm_InitTables, initId)
     IN  /\ lastOp' = [op |-> "init", obj |-> o, qp |-> qp, initId |-> initId, ok |-> ok]
         /\ IF ok
            THEN /\ ctxs' = [ctxs EXCEPT ![o].m_CtxStore_Std =
                               CtxStore_init(@, sm_InitTables, qp, initId)]
                 /\ hist' = [hist EXCEPT ![o].ops = << [qp |-> qp, initId |-> initId] >>]
            ELSE UNCHANGED << ctxs, hist >>
  /\ UNCHANGED << probStates, regVars, pmVars >>
  /\ UNCHANGED isVars

\* ctx.setWinSizes( log2WindowSizes )
Store_setWinSizes(o, log2WindowSizes) ==
  /\ ctxs[o].alive
  /\ Step(o)
  /\ LET ok == CtxStore_setWinSizes_ok(ctxs[o].m_CtxStore_Std, log2WindowSizes)
     IN  /\ lastOp' = [op |-> "setWinSizes", obj |-> o, ok |-> ok]
         /\ IF ok
            THEN /\ ctxs' = [ctxs EXCEPT ![o].m_CtxStore_Std =
                               CtxStore_setWinSizes(@, log2WindowSizes)]
                 /\ hist' = [hist EXCEPT ![o].ops = << >>]
            ELSE UNCHANGED << ctxs, hist >>
  /\ UNCHANGED << probStates, regVars, pmVars >>
  /\ UNCHANGED isVars

\* ctx.loadPStates( probStates ) with the vector saved last
Store_loadPStates(o) ==
  /\ ctxs[o].alive
  /\ Step(o)
  /\ LET ok == CtxStore_loadPStates_ok(ctxs[o].m_CtxStore_Std, probStates)
     IN  /\ lastOp' = [op |-> "loadPStates", obj |-> o, ok |-> ok]
         /\ IF ok
            THEN /\ ctxs' = [ctxs EXCEPT ![o].m_CtxStore_Std =
                               CtxStore_loadPStates(@, probStates)]
                 /\ hist' = [hist EXCEPT ![o].ops = << >>]
            ELSE UNCHANGED << ctxs, hist >>
  /\ UNCHANGED << probStates, regVars, pmVars >>
  /\ UNCHANGED isVars

\* ctx.savePStates( probStates ): there is no CHECK, the call always returns
Store_savePStates(o) ==
  /\ ctxs[o].alive
  /\ Step(o)
  /\ probStates' = CtxStore_savePStates(ctxs[o].m_CtxStore_Std, probStates)
  /\ lastOp' = [op |-> "savePStates", obj |-> o, ok |-> TRUE, oldSize |-> Len(probStates)]
  /\ UNCHANGED << ctxs, hist, regVars, pmVars >>
  /\ UNCHANGED isVars

\* ctx[ctxId].update( bin ): operator[] goes through the pointer m_Ctx
Ctx_update(o, ctxId, bin) ==
  /\ ctxs[o].alive
  /\ ctxs[o].m_CtxStore_Std.m_Ctx # "nullptr"
  /\ LET target == ctxs[o].m_CtxStore_Std.m_Ctx
     IN  /\ ctxId < Len(ctxs[target].m_CtxStore_Std.m_CtxBuffer)
         /\ ctxs' = [ctxs EXCEPT ![target].m_CtxStore_Std.m_CtxBuffer[ctxId + 1] =
                       BinProbModel_Std_update(@, bin)]
  /\ Step(o)
  /\ hist' = [hist EXCEPT ![o].ops =
                IF @ = << >> THEN @ ELSE Append(@, [ctxId |-> ctxId, bin |-> bin])]
  /\ lastOp' = [op |-> "update", obj |-> o, ctxId |-> ctxId, bin |-> bin]
  /\ UNCHANGED << probStates, regVars, pmVars >>
  /\ UNCHANGED isVars

Next ==
  \/ \E o \in Objs, gr \in GRInputs : Construct_default(o, gr)
  \/ \E o \in Objs, gr \in GRInputs : Construct_real(o, gr)
  \/ \E o \in Objs, src \in Objs, gr \in GRInputs : Construct_copy(o, src, gr)
  \/ \E o \in Objs, qp \in QpInputs, initId \in InitIdInputs : Store_init(o, qp, initId)
  \/ \E o \in Objs, v \in WinVectors : Store_setWinSizes(o, v)
  \/ \E o \in Objs : Store_loadPStates(o)
  \/ \E o \in Objs : Store_savePStates(o)
  \/ \E o \in Objs, ctxId \in CtxIdInputs, bin \in {0, 1} : Ctx_update(o, ctxId, bin)

Spec == Init /\ [][Next]_vars

(* ---------------------------------------------------------------------- *)
(* Properties of Ctx and CtxStore                                         *)
(* ---------------------------------------------------------------------- *)

Buffer(o) == ctxs[o].m_CtxStore_Std.m_CtxBuffer

\* a step leaves every Ctx object other than the one it was called on as it was
C1_Frame == \A o \in Objs : lastOp'.obj # o => ctxs'[o] = ctxs[o]

\* the pointer of a constructed store refers to the store's own buffer
C1_OwnBuffer ==
  \A o \in Objs : ctxs[o].alive => ctxs[o].m_CtxStore_Std.m_Ctx \in { "nullptr", o }

\* C1: a copy-constructed Ctx shares no storage with its source: its pointer
\* m_Ctx refers to its own buffer, and every operation on one object (init,
\* setWinSizes, loadPStates, a bin coded with one of its contexts), in any
\* interleaving, leaves every state of the other object unchanged.
C1_CopyIndependent == [][C1_Frame /\ C1_OwnBuffer']_vars

\* ctxB was copied from the initialised ctxA and then updated
C1_Witness ==
  /\ hist["ctxB"].origin = "ctxA"
  /\ Len(hist["ctxA"].ops) = 1
  /\ lastOp = [op |-> "update", obj |-> "ctxB", ctxId |-> 0, bin |-> 1]
  /\ Buffer("ctxA") # Buffer("ctxB")
  /\ ctxs["ctxB"].m_CtxStore_Std.m_Ctx = "ctxB"

\* C2: right after the copy construction the copy has the model kind, the
\* state of every context and every entry of m_GRAdaptStats of its source.
C2_CopyEqual ==
  lastOp.op = "copy" =>
    LET c == ctxs[lastOp.obj]
        s == ctxs[lastOp.src]
    IN  /\ c.alive /\ s.alive
        /\ c.m_BPMType = s.m_BPMType
        /\ Len(c.m_CtxStore_Std.m_CtxBuffer) = Len(s.m_CtxStore_Std.m_CtxBuffer)
        /\ \A k \in 1..Len(s.m_CtxStore_Std.m_CtxBuffer) :
             c.m_CtxStore_Std.m_CtxBuffer[k] = s.m_CtxStore_Std.m_CtxBuffer[k]
        /\ \A k \in 1..RExt__GOLOMB_RICE_ADAPTATION_STATISTICS_SETS :
             c.m_GRAdaptStats[k] = s.m_GRAdaptStats[k]

\* the source was initialised and updated before it was copied
C2_Witness ==
  /\ lastOp = [op |-> "copy", obj |-> "ctxB", src |-> "ctxA"]
  /\ Len(hist["ctxA"].ops) = 2
  /\ ctxs["ctxA"].m_GRAdaptStats = << 3, 0, 1, 2 >>
  /\ ctxs["ctxA"].m_BPMType = "BPM_Std"

\* C3: after init(qp, initId) on a live store of the tables' size every context k
\* holds the state init(Clip3(0, MAX_QP, qp), getInitTable(initId)[k]) gives, with
\* the window size of getInitTable(NUMBER_OF_SLICE_TYPES)[k]: a qp below 0 gives
\* the store of qp 0, one above MAX_QP that of MAX_QP, whatever the store held.
C3_InitResult ==
  (lastOp.op = "init" /\ lastOp.ok) =>
    LET qp        == lastOp.qp
        clipped   == IF qp < 0 THEN 0 ELSE IF qp > MAX_QP THEN MAX_QP ELSE qp
        initTable == getInitTable(sm_InitTables, lastOp.initId)
        rateTable == getInitTable(sm_InitTables, NUMBER_OF_SLICE_TYPES)
    IN  /\ Len(Buffer(lastOp.obj)) = Len(initTable)
        /\ \A k \in 1..Len(initTable) :
             LET expect == BinProbModel_Std_init(BinProbModel_New, clipped, initTable[k])
             IN  /\ Buffer(lastOp.obj)[k].state0 = expect.state0
                 /\ Buffer(lastOp.obj)[k].state1 = expect.state1
                 /\ Buffer(lastOp.obj)[k].rate =
                      setLog2WindowSize(BinProbModel_New, rateTable[k]).rate

\* a store that held other states is initialised with a qp below 0
C3_Witness ==
  /\ lastOp = [op |-> "init", obj |-> "ctxA", qp |-> -1, initId |-> 2, ok |-> TRUE]
  /\ nOps >= 3
  /\ Buffer("ctxA")[1].state1 # 0

\* C7: two stores that were initialised with the same (qp, initId) and have
\* since coded the same bins hold the same state in every context, whatever
\* they held before the initialisation.
C7_Deterministic ==
  \A o1 \in Objs, o2 \in Objs :
    (ctxs[o1].alive /\ ctxs[o2].alive /\ hist[o1].ops # << >> /\ hist[o1].ops = hist[o2].ops)
      => Buffer(o1) = Buffer(o2)

\* ctxB, constructed on its own and used, and ctxA were initialised alike
C7_Witness ==
  /\ hist["ctxB"].origin = "real"
  /\ hist["ctxA"].ops # << >>
  /\ hist["ctxA"].ops = hist["ctxB"].ops
  /\ lastOp.op = "init"
  /\ nOps = MaxOps

(* ---------------------------------------------------------------------- *)
(* ContextSetCfg::getInitTable as a function of the tables and the id     *)
(* ---------------------------------------------------------------------- *)

\* the groups registered before the call: none, one or two of the source's
TableGroups ==
  { SplitFlag, SplitQtFlag, SplitHvFlag, Split12Flag, SkipFlag, SaoMergeFlag, SaoTypeIdx }
TableInputs ==
  { << >> } \cup { << g >> : g \in TableGroups }
            \cup { << p[1], p[2] >> : p \in { q \in TableGroups \X TableGroups : q[1] # q[2] } }
\* the ids of a call: CtxStore::init hands over an int
LookupIds == -2..6

InitTab ==
  /\ \E groups \in TableInputs :
       LET r == RegisterAll(sm_InitTables_New, << >>, groups)
       IN  /\ sm_InitTables = r.tables
           /\ NumberOfContexts = NumberOfContexts_init(r.tables)
           /\ regLog = r.log
  /\ regPc = "done"
  /\ regFail = None
  /\ merged = None
  /\ ctxs = [o \in Objs |-> NoCtx]
  /\ \E initId \in LookupIds : lastOp = [op |-> "pending", initId |-> initId]
  /\ probStates = << >>
  /\ hist = [o \in Objs |-> NoHist]
  /\ nOps = 0
  /\ PmIdle
  /\ IsIdle

\* ContextSetCfg::getInitTable( initId )
GetInitTable ==
  /\ lastOp.op = "pending"
  /\ LET ok == getInitTable_ok(sm_InitTables, lastOp.initId)
     IN  lastOp' = [op |-> "getInitTable", initId |-> lastOp.initId, ok |-> ok,
                    row |-> IF ok THEN getInitTable(sm_InitTables, lastOp.initId) ELSE << >>,
                    before |-> sm_InitTables]
  /\ UNCHANGED << ctxs, probStates, hist, nOps, regVars, pmVars >>
  /\ UNCHANGED isVars

NextTab == GetInitTable

SpecTab == InitTab /\ [][NextTab]_vars

\* C11: getInitTable(initId) fails for every id that is not one of the four
\* table ids 0..NUMBER_OF_SLICE_TYPES (a negative int included) and returns the
\* row of the id, with all its registered contexts, for each of the four; the
\* tables are the same after the call as before it in both cases.
C11_LookupRange ==
  lastOp.op = "getInitTable" =>
    /\ lastOp.ok <=> lastOp.initId \in 0..NUMBER_OF_SLICE_TYPES
    /\ lastOp.ok =>
         /\ lastOp.row = sm_InitTables[lastOp.initId + 1]
         /\ Len(lastOp.row) = NumberOfContexts
         /\ \A i \in 1..Len(regLog) : \A k \in 1..regLog[i].set.Size :
              lastOp.row[regLog[i].set.Offset + k] = regLog[i].rows[lastOp.initId + 1][k]
    /\ sm_InitTables = lastOp.before
    /\ Len(sm_InitTables) = NUMBER_OF_SLICE_TYPES + 1

\* the rate table of two registered groups was looked up, and (in another
\* state) the id one past it was refused
C11_Witness ==
  /\ lastOp.op = "getInitTable"
  /\ lastOp.initId = NUMBER_OF_SLICE_TYPES
  /\ lastOp.ok
  /\ Len(regLog) = 2
  /\ lastOp.row = << 5, 8, 8, 0 >>

(* ---------------------------------------------------------------------- *)
(* Failing calls, bulk save and load, sizes and construction              *)
(* ---------------------------------------------------------------------- *)

\* a call of init, setWinSizes or loadPStates whose sizes do not match
C12_Mismatch(o) ==
  \/ \E qp \in QpInputs, initId \in 0..NUMBER_OF_SLICE_TYPES :
       /\ Store_init(o, qp, initId)
       /\ \/ Len(Buffer(o)) # Len(sm_InitTables[initId + 1])
          \/ Len(Buffer(o)) # Len(sm_InitTables[NUMBER_OF_SLICE_TYPES + 1])
  \/ \E v \in WinVectors : Store_setWinSizes(o, v) /\ Len(v) # Len(Buffer(o))
  \/ Store_loadPStates(o) /\ Len(probStates) # Len(Buffer(o))

\* C12: init on a store whose size differs from the size of the init table or of
\* the rate table (a default-constructed store with contexts registered is
\* one), and setWinSizes and loadPStates with a vector whose length differs
\* from the size of the store, fail, and the step leaves every Ctx object, so
\* every context state of the store, as it was.
C12_MismatchFails ==
  [][\A o \in Objs : C12_Mismatch(o) => (~lastOp'.ok /\ ctxs' = ctxs)]_vars

\* init failed on the default-constructed ctxB while ctxA holds three contexts
C12_Witness ==
  /\ lastOp = [op |-> "init", obj |-> "ctxB", qp |-> 32, initId |-> 0, ok |-> FALSE]
  /\ hist["ctxB"].origin = "default"
  /\ Len(Buffer("ctxB")) = 0
  /\ Len(sm_InitTables[1]) = 3

\* C13 as claimed: savePStates with a vector whose length differs from the size
\* of the store fails
C13_SaveMismatchFails ==
  [][\A o \in Objs :
       (Store_savePStates(o) /\ Len(probStates) # Len(Buffer(o))) => ~lastOp'.ok]_vars

\* C13, amended: savePStates never fails; whatever length the vector has, it is
\* resized to the size of the store and entry k is set to the raw state of
\* context k, and the store itself is left as it was.
C13_SaveResizes ==
  [][\A o \in Objs :
       Store_savePStates(o) =>
         /\ lastOp'.ok
         /\ Len(probStates') = Len(Buffer(o))
         /\ \A k \in 1..Len(Buffer(o)) : probStates'[k] = getState(Buffer(o)[k])
         /\ ctxs' = ctxs]_vars

\* a vector of three states was handed to the empty store of ctxB and came back empty
C13_Witness ==
  /\ lastOp = [op |-> "savePStates", obj |-> "ctxB", ok |-> TRUE, oldSize |-> 3]
  /\ Len(Buffer("ctxB")) = 0
  /\ probStates = << >>

\* the vector holds, entry by entry, the raw states of the store that saved last
C14_Saved ==
  lastOp.op = "savePStates" =>
    /\ Len(probStates) = Len(Buffer(lastOp.obj))
    /\ \A k \in 1..Len(probStates) : probStates[k] = getState(Buffer(lastOp.obj)[k])

MergedMembers == { regLog[merged.members[k]].set : k \in 1..Len(merged.members) }
\* the smallest offset and the largest end (offset + size, as uint16_t) among them
MinOffset == CHOOSE m \in { c.Offset : c \in MergedMembers } :
               \A c \in MergedMembers : m <= c.Offset
MaxEnd    == CHOOSE m \in { (c.Offset + c.Size) % 65536 : c \in MergedMembers } :
               \A c \in MergedMembers : m >= (c.Offset + c.Size) % 65536

\* C15: a set merged from a list of sets has the smallest offset of the members
\* as its Offset and the largest offset + size of the members minus that offset,
\* in 16-bit unsigned arithmetic, as its Size, so the range of every member lies
\* inside the merged range; merged from SaoMergeFlag and SaoTypeIdx, registered
\* one after the other as in the source, it is the two contexts of the two.
C15_MergeSpan ==
  (merged # None /\ merged.members # << >>) =>
    /\ merged.set.Offset = MinOffset
    /\ merged.set.Size = (MaxEnd - MinOffset) % 65536
    /\ \A c \in MergedMembers :
         /\ merged.set.Offset <= c.Offset
         /\ c.Offset + c.Size <= merged.set.Offset + merged.set.Size
    /\ \A i \in 1..(Len(regLog) - 1) :
         (/\ regLog[i].name = "SaoMergeFlag"
          /\ regLog[i + 1].name = "SaoTypeIdx"
          /\ merged.members = << i, i + 1 >>) =>
           merged.set = [Offset |-> regLog[i].set.Offset, Size |-> 2]

\* Sao was merged from its two groups, registered after SplitFlag and SkipFlag
C15_Witness ==
  /\ merged # None
  /\ Len(regLog) = 4
  /\ regLog[3].name = "SaoMergeFlag"
  /\ regLog[4].name = "SaoTypeIdx"
  /\ merged.members = << 3, 4 >>
  /\ merged.set = [Offset |-> 12, Size |-> 2]

\* C16: every set returned by a registration and every set merged from a list of
\* registered sets, the list of one set and the empty list included, has
\* Offset + Size no larger than the number of registered contexts.
C16_WithinRegistered ==
  /\ \A i \in 1..Len(regLog) :
       regLog[i].set.Offset + regLog[i].set.Size <= Len(sm_InitTables[1])
  /\ merged # None => merged.set.Offset + merged.set.Size <= Len(sm_InitTables[1])

(* ---------------------------------------------------------------------- *)
(* Sizes of stores and construction of Ctx objects                        *)
(* ---------------------------------------------------------------------- *)

\* the size each constructed store has by the way it was constructed
C17_Sizes ==
  \A o \in Objs : ctxs[o].alive =>
    /\ hist[o].origin = "default" => Len(Buffer(o)) = 0
    /\ hist[o].origin = "real" =>
         /\ Len(Buffer(o)) = NumberOfContexts
         /\ Len(Buffer(o)) = Len(sm_InitTables[1])
    /\ hist[o].origin \in Objs => Len(Buffer(o)) = Len(Buffer(hist[o].origin))
    /\ (lastOp.op = "construct" /\ lastOp.obj = o /\ hist[o].origin = "real") =>
         \A k \in 1..NumberOfContexts : Buffer(o)[k] = [state0 |-> 0, state1 |-> 0, rate |-> 0]

\* C17: a default-constructed store has size 0 and a live-constructed store has
\* NumberOfContexts entries, all zero when constructed; no operation (init,
\* setWinSizes, loadPStates, savePStates, a coded bin, the copy of the store
\* into another) changes the size of a constructed store, so a live store has
\* the size of the registered contexts throughout.
C17_SizeKept ==
  [][/\ C17_Sizes
     /\ C17_Sizes'
     /\ \A o \in Objs : ctxs[o].alive =>
          (ctxs'[o].alive /\ Len(Buffer(o)') = Len(Buffer(o)))]_vars

\* ctxB, a copy of the live ctxA, was initialised and loaded with saved states
C17_Witness ==
  /\ nOps = MaxOps
  /\ hist["ctxB"].origin = "ctxA"
  /\ lastOp = [op |-> "loadPStates", obj |-> "ctxB", ok |-> TRUE]
  /\ Buffer("ctxB")[1].rate # 0
  /\ NumberOfContexts = 3
  /\ Len(Buffer("ctxB")) = NumberOfContexts

\* C18: a Ctx constructed for the standard model has the kind BPM_Std, a live
\* store of NumberOfContexts contexts and every entry of m_GRAdaptStats equal
\* to zero; a default-constructed Ctx has the kind BPM_Undefined and an empty
\* store.
C18_Construction ==
  \A o \in Objs :
    (lastOp.op = "construct" /\ lastOp.obj = o) =>
      /\ hist[o].origin = "real" =>
           /\ ctxs[o].m_BPMType = "BPM_Std"
           /\ ctxs[o].m_CtxStore_Std.m_Ctx = o
           /\ Len(Buffer(o)) = NumberOfContexts
           /\ \A k \in 1..RExt__GOLOMB_RICE_ADAPTATION_STATISTICS_SETS :
                ctxs[o].m_GRAdaptStats[k] = 0
      /\ hist[o].origin = "default" =>
           /\ ctxs[o].m_BPMType = "BPM_Undefined"
           /\ Len(Buffer(o)) = 0

(* ---------------------------------------------------------------------- *)
(* The counts init reads from ProbModelTables::m_inistateToCount          *)
(* ---------------------------------------------------------------------- *)

\* the count at state index i (0..127)
Count(i) == m_inistateToCount[i + 1]

\* the four published counts
C19_Literals ==
  /\ Count(0) = 614 /\ Count(63) = 16384 /\ Count(64) = 16384 /\ Count(127) = 32153

\* C19 as claimed: the count init reads at index i and the count at the
\* mirrored index 127 - i add up to one and the same constant for every i
C19_Symmetric ==
  pmCall.op = "init" =>
    /\ Count(pmCall.index) + Count(127 - pmCall.index) = Count(0) + Count(127)
    /\ C19_Literals

\* C19, amended: the count at index i and the count at 127 - i add up to 32767
\* for every i except the two middle indices, where Count(63) + Count(64) is
\* 32768; Count(0) = 614, Count(63) = Count(64) = 16384, Count(127) = 32153.
C19_SymmetricButMiddle ==
  pmCall.op = "init" =>
    /\ Count(pmCall.index) + Count(127 - pmCall.index) =
         (IF pmCall.index \in {63, 64} THEN 32768 ELSE 32767)
    /\ pm.state1 + Count(127 - pmCall.index) \in 32766..32768
    /\ C19_Literals

\* init read the count of the middle index 64
C19_Witness ==
  /\ pmCall.op = "init"
  /\ pmCall.index = 64
  /\ pm.state1 = 16384

\* C20 as claimed: the counts increase strictly with the index, so every index
\* above the one init read holds a larger count
C20_StrictlyIncreasing ==
  pmCall.op = "init" =>
    \A j \in 0..127 : j > pmCall.index => Count(j) > Count(pmCall.index)

\* C20, amended: the counts never decrease with the index, and increase
\* strictly except from index 63 to index 64, which hold the same count 16384.
C20_NonDecreasing ==
  pmCall.op = "init" =>
    \A j \in 0..127 : j > pmCall.index =>
      /\ Count(j) >= Count(pmCall.index)
      /\ Count(j) = Count(pmCall.index) <=> (pmCall.index = 63 /\ j = 64)
      /\ Count(j) >= pm.state1

\* init read the count of index 63 with a negative slope and a qp above 0
C20_Witness ==
  /\ pmCall.op = "init"
  /\ pmCall.index = 63
  /\ pmCall.qp > 0
  /\ pm.state0 = 16384

(* ---------------------------------------------------------------------- *)
(* ProbModelTables::m_RenormTable_32 and m_binFracBits                    *)
(* (index 0 of the source is position 1 here)                             *)
(* ---------------------------------------------------------------------- *)

\* the renormalisation table with the shift of its fourth class one too small
m_RenormTable_32_Short ==
  << 6, 5, 4, 3, 3, 3, 3, 3,
     2, 2, 2, 2, 2, 2, 2, 2,
     1, 1, 1, 1, 1, 1, 1, 1,
     1, 1, 1, 1, 1, 1, 1, 1 >>

m_RenormTable_32 ==
  << 6, 5, 4, 4, 3, 3, 3, 3,
     2, 2, 2, 2, 2, 2, 2, 2,
     1, 1, 1, 1, 1, 1, 1, 1,
     1, 1, 1, 1, 1, 1, 1, 1 >>

\* the bit costs with the two costs of the last entry exchanged
m_binFracBits_Exchanged ==
  <<
     <<92, 294912>>, <<278, 242976>>, <<464, 218827>>, <<651, 202921>>, <<838, 191040>>, <<1027, 181553>>, <<1216, 173656>>, <<1406, 166891>>,
     <<1596, 160974>>, <<1788, 155716>>, <<1980, 150985>>, <<2173, 146684>>, <<2367, 142742>>, <<2561, 139104>>, <<2756, 135726>>, <<2953, 132573>>,
     <<3150, 129617>>, <<3347, 126836>>, <<3546, 124209>>, <<3746, 121720>>, <<3946, 119356>>, <<4147, 117104>>, <<4349, 114955>>, <<4552, 112899>>,
     <<4756, 110929>>, <<4960, 109038>>, <<5166, 107220>>, <<5372, 105468>>, <<5580, 103780>>, <<5788, 102150>>, <<5997, 100574>>, <<6207, 99048>>,
     <<6418, 97571>>, <<6630, 96138>>, <<6843, 94748>>, <<7057, 93397>>, <<7272, 92084>>, <<7488, 90806>>, <<7705, 89562>>, <<7923, 88350>>,
     <<8141, 87168>>, <<8361, 86015>>, <<8582, 84889>>, <<8804, 83790>>, <<9027, 82715>>, <<9251, 81665>>, <<9476, 80637>>, <<9702, 79631>>,
     <<9930, 78646>>, <<10158, 77681>>, <<10388, 76736>>, <<10618, 75809>>, <<10850, 74900>>, <<11083, 74008>>, <<11317, 73132>>, <<11552, 72273>>,
     <<11788, 71428>>, <<12026, 70599>>, <<12265, 69784>>, <<12505, 68983>>, <<12746, 68195>>, <<12988, 67420>>, <<13232, 66657>>, <<13477, 65907>>,
     <<13723, 65168>>, <<13971, 64441>>, <<14220, 63725>>, <<14470, 63019>>, <<14721, 62324>>, <<14974, 61639>>, <<15228, 60963>>, <<15484, 60297>>,
     <<15741, 59641>>, <<15999, 58993>>, <<16259, 58354>>, <<16520, 57724>>, <<16782, 57102>>, <<17047, 56488>>, <<17312, 55882>>, <<17579, 55283>>,
     <<17848, 54693>>, <<18118, 54109>>, <<18390, 53532>>, <<18663, 52963>>, <<18938, 52400>>, <<19214, 51844>>, <<19492, 51294>>, <<19772, 50751>>,
     <<20053, 50214>>, <<20337, 49682>>, <<20621, 49157>>, <<20908, 48638>>, <<21196, 48124>>, <<21486, 47615>>, <<21778, 47112>>, <<22072, 46615>>,
     <<22367, 46122>>, <<22664, 45635>>, <<22964, 45153>>, <<23265, 44675>>, <<23568, 44202>>, <<23873, 43734>>, <<24180, 43271>>, <<24489, 42812>>,
     <<24800, 42357>>, <<25113, 41907>>, <<25428, 41461>>, <<25745, 41019>>, <<26065, 40581>>, <<26386, 40148>>, <<26710, 39718>>, <<27036, 39292>>,
     <<27364, 38870>>, <<27695, 38452>>, <<28028, 38037>>, <<28363, 37626>>, <<28701, 37218>>, <<29041, 36814>>, <<29383, 36414>>, <<29729, 36016>>,
     <<30076, 35622>>, <<30426, 35232>>, <<30779, 34844>>, <<31135, 34460>>, <<31493, 34079>>, <<31854, 33700>>, <<32217, 33325>>, <<32584, 32953>>,
     <<32953, 32584>>, <<33325, 32217>>, <<33700, 31854>>, <<34079, 31493>>, <<34460, 31135>>, <<34844, 30779>>, <<35232, 30426>>, <<35622, 30076>>,
     <<36016, 29729>>, <<36414, 29383>>, <<36814, 29041>>, <<37218, 28701>>, <<37626, 28363>>, <<38037, 28028>>, <<38452, 27695>>, <<38870, 27364>>,
     <<39292, 27036>>, <<39718, 26710>>, <<40148, 26386>>, <<40581, 26065>>, <<41019, 25745>>, <<41461, 25428>>, <<41907, 25113>>, <<42357, 24800>>,
     <<42812, 24489>>, <<43271, 24180>>, <<43734, 23873>>, <<44202, 23568>>, <<44675, 23265>>, <<45153, 22964>>, <<45635, 22664>>, <<46122, 22367>>,
     <<46615, 22072>>, <<47112, 21778>>, <<47615, 21486>>, <<48124, 21196>>, <<48638, 20908>>, <<49157, 20621>>, <<49682, 20337>>, <<50214, 20053>>,
     <<50751, 19772>>, <<51294, 19492>>, <<51844, 19214>>, <<52400, 18938>>, <<52963, 18663>>, <<53532, 18390>>, <<54109, 18118>>, <<54693, 17848>>,
     <<55283, 17579>>, <<55882, 17312>>, <<56488, 17047>>, <<57102, 16782>>, <<57724, 16520>>, <<58354, 16259>>, <<58993, 15999>>, <<59641, 15741>>,
     <<60297, 15484>>, <<60963, 15228>>, <<61639, 14974>>, <<62324, 14721>>, <<63019, 14470>>, <<63725, 14220>>, <<64441, 13971>>, <<65168, 13723>>,
     <<65907, 13477>>, <<66657, 13232>>, <<67420, 12988>>, <<68195, 12746>>, <<68983, 12505>>, <<69784, 12265>>, <<70599, 12026>>, <<71428, 11788>>,
     <<72273, 11552>>, <<73132, 11317>>, <<74008, 11083>>, <<74900, 10850>>, <<75809, 10618>>, <<76736, 10388>>, <<77681, 10158>>, <<78646, 9930>>,
     <<79631, 9702>>, <<80637, 9476>>, <<81665, 9251>>, <<82715, 9027>>, <<83790, 8804>>, <<84889, 8582>>, <<86015, 8361>>, <<87168, 8141>>,
     <<88350, 7923>>, <<89562, 7705>>, <<90806, 7488>>, <<92084, 7272>>, <<93397, 7057>>, <<94748, 6843>>, <<96138, 6630>>, <<97571, 6418>>,
     <<99048, 6207>>, <<100574, 5997>>, <<102150, 5788>>, <<103780, 5580>>, <<105468, 5372>>, <<107220, 5166>>, <<109038, 4960>>, <<110929, 4756>>,
     <<112899, 4552>>, <<114955, 4349>>, <<117104, 4147>>, <<119356, 3946>>, <<121720, 3746>>, <<124209, 3546>>, <<126836, 3347>>, <<129617, 3150>>,
     <<132573, 2953>>, <<135726, 2756>>, <<139104, 2561>>, <<142742, 2367>>, <<146684, 2173>>, <<150985, 1980>>, <<155716, 1788>>, <<160974, 1596>>,
     <<166891, 1406>>, <<173656, 1216>>, <<181553, 1027>>, <<191040, 838>>, <<202921, 651>>, <<218827, 464>>, <<242976, 278>>, <<92, 294912>>
  >>

\* m_binFracBits[q].intBits[0..1], scaled by 2^15
m_binFracBits ==
  <<
     <<92, 294912>>, <<278, 242976>>, <<464, 218827>>, <<651, 202921>>, <<838, 191040>>, <<1027, 181553>>, <<1216, 173656>>, <<1406, 166891>>,
     <<1596, 160974>>, <<1788, 155716>>, <<1980, 150985>>, <<2173, 146684>>, <<2367, 142742>>, <<2561, 139104>>, <<2756, 135726>>, <<2953, 132573>>,
     <<3150, 129617>>, <<3347, 126836>>, <<3546, 124209>>, <<3746, 121720>>, <<3946, 119356>>, <<4147, 117104>>, <<4349, 114955>>, <<4552, 112899>>,
     <<4756, 110929>>, <<4960, 109038>>, <<5166, 107220>>, <<5372, 105468>>, <<5580, 103780>>, <<5788, 102150>>, <<5997, 100574>>, <<6207, 99048>>,
     <<6418, 97571>>, <<6630, 96138>>, <<6843, 94748>>, <<7057, 93397>>, <<7272, 92084>>, <<7488, 90806>>, <<7705, 89562>>, <<7923, 88350>>,
     <<8141, 87168>>, <<8361, 86015>>, <<8582, 84889>>, <<8804, 83790>>, <<9027, 82715>>, <<9251, 81665>>, <<9476, 80637>>, <<9702, 79631>>,
     <<9930, 78646>>, <<10158, 77681>>, <<10388, 76736>>, <<10618, 75809>>, <<10850, 74900>>, <<11083, 74008>>, <<11317, 73132>>, <<11552, 72273>>,
     <<11788, 71428>>, <<12026, 70599>>, <<12265, 69784>>, <<12505, 68983>>, <<12746, 68195>>, <<12988, 67420>>, <<13232, 66657>>, <<13477, 65907>>,
     <<13723, 65168>>, <<13971, 64441>>, <<14220, 63725>>, <<14470, 63019>>, <<14721, 62324>>, <<14974, 61639>>, <<15228, 60963>>, <<15484, 60297>>,
     <<15741, 59641>>, <<15999, 58993>>, <<16259, 58354>>, <<16520, 57724>>, <<16782, 57102>>, <<17047, 56488>>, <<17312, 55882>>, <<17579, 55283>>,
     <<17848, 54693>>, <<18118, 54109>>, <<18390, 53532>>, <<18663, 52963>>, <<18938, 52400>>, <<19214, 51844>>, <<19492, 51294>>, <<19772, 50751>>,
     <<20053, 50214>>, <<20337, 49682>>, <<20621, 49157>>, <<20908, 48638>>, <<21196, 48124>>, <<21486, 47615>>, <<21778, 47112>>, <<22072, 46615>>,
     <<22367, 46122>>, <<22664, 45635>>, <<22964, 45153>>, <<23265, 44675>>, <<23568, 44202>>, <<23873, 43734>>, <<24180, 43271>>, <<24489, 42812>>,
     <<24800, 42357>>, <<25113, 41907>>, <<25428, 41461>>, <<25745, 41019>>, <<26065, 40581>>, <<26386, 40148>>, <<26710, 39718>>, <<27036, 39292>>,
     <<27364, 38870>>, <<27695, 38452>>, <<28028, 38037>>, <<28363, 37626>>, <<28701, 37218>>, <<29041, 36814>>, <<29383, 36414>>, <<29729, 36016>>,
     <<30076, 35622>>, <<30426, 35232>>, <<30779, 34844>>, <<31135, 34460>>, <<31493, 34079>>, <<31854, 33700>>, <<32217, 33325>>, <<32584, 32953>>,
     <<32953, 32584>>, <<33325, 32217>>, <<33700, 31854>>, <<34079, 31493>>, <<34460, 31135>>, <<34844, 30779>>, <<35232, 30426>>, <<35622, 30076>>,
     <<36016, 29729>>, <<36414, 29383>>, <<36814, 29041>>, <<37218, 28701>>, <<37626, 28363>>, <<38037, 28028>>, <<38452, 27695>>, <<38870, 27364>>,
     <<39292, 27036>>, <<39718, 26710>>, <<40148, 26386>>, <<40581, 26065>>, <<41019, 25745>>, <<41461, 25428>>, <<41907, 25113>>, <<42357, 24800>>,
     <<42812, 24489>>, <<43271, 24180>>, <<43734, 23873>>, <<44202, 23568>>, <<44675, 23265>>, <<45153, 22964>>, <<45635, 22664>>, <<46122, 22367>>,
     <<46615, 22072>>, <<47112, 21778>>, <<47615, 21486>>, <<48124, 21196>>, <<48638, 20908>>, <<49157, 20621>>, <<49682, 20337>>, <<50214, 20053>>,
     <<50751, 19772>>, <<51294, 19492>>, <<51844, 19214>>, <<52400, 18938>>, <<52963, 18663>>, <<53532, 18390>>, <<54109, 18118>>, <<54693, 17848>>,
     <<55283, 17579>>, <<55882, 17312>>, <<56488, 17047>>, <<57102, 16782>>, <<57724, 16520>>, <<58354, 16259>>, <<58993, 15999>>, <<59641, 15741>>,
     <<60297, 15484>>, <<60963, 15228>>, <<61639, 14974>>, <<62324, 14721>>, <<63019, 14470>>, <<63725, 14220>>, <<64441, 13971>>, <<65168, 13723>>,
     <<65907, 13477>>, <<66657, 13232>>, <<67420, 12988>>, <<68195, 12746>>, <<68983, 12505>>, <<69784, 12265>>, <<70599, 12026>>, <<71428, 11788>>,
     <<72273, 11552>>, <<73132, 11317>>, <<74008, 11083>>, <<74900, 10850>>, <<75809, 10618>>, <<76736, 10388>>, <<77681, 10158>>, <<78646, 9930>>,
     <<79631, 9702>>, <<80637, 9476>>, <<81665, 9251>>, <<82715, 9027>>, <<83790, 8804>>, <<84889, 8582>>, <<86015, 8361>>, <<87168, 8141>>,
     <<88350, 7923>>, <<89562, 7705>>, <<90806, 7488>>, <<92084, 7272>>, <<93397, 7057>>, <<94748, 6843>>, <<96138, 6630>>, <<97571, 6418>>,
     <<99048, 6207>>, <<100574, 5997>>, <<102150, 5788>>, <<103780, 5580>>, <<105468, 5372>>, <<107220, 5166>>, <<109038, 4960>>, <<110929, 4756>>,
     <<112899, 4552>>, <<114955, 4349>>, <<117104, 4147>>, <<119356, 3946>>, <<121720, 3746>>, <<124209, 3546>>, <<126836, 3347>>, <<129617, 3150>>,
     <<132573, 2953>>, <<135726, 2756>>, <<139104, 2561>>, <<142742, 2367>>, <<146684, 2173>>, <<150985, 1980>>, <<155716, 1788>>, <<160974, 1596>>,
     <<166891, 1406>>, <<173656, 1216>>, <<181553, 1027>>, <<191040, 838>>, <<202921, 651>>, <<218827, 464>>, <<242976, 278>>, <<294912, 92>>
  >>

\* BinProbModel_Std::state(): the 8-bit quantised probability of a model
BinProbModel_Std_state(m) == SHR(m.state0 + m.state1, 8)

\* BinProbModel_Std::estFracBits( bin ) for both bins: the entry of m_binFracBits
getFracBitsArray(m) == m_binFracBits[BinProbModel_Std_state(m) + 1]

\* the shift count looked up for a range, and the range after the shift
RenormShift(range) == m_RenormTable_32[SHR(range, 3) + 1]
Renormalised(range) == range * Pow2(RenormShift(range))

\* models whose quantised probabilities cover 0..255: the first estimate in
\* steps of its precision, the second one equal to it or up to 30 above
BitsModels ==
  { BinProbModel(32 * k, 32 * k + d, 0) : k \in 0..1023, d \in {0, 30} }
\* ranges below 2^8, which are the ones that are renormalised
RenormRanges == 1..255

InitTables ==
  /\ sm_InitTables = sm_InitTables_New
  /\ NumberOfContexts = 0
  /\ regPc = "done"
  /\ regLog = << >>
  /\ regFail = None
  /\ merged = None
  /\ StoreIdle
  /\ nBins = 0
  /\ \/ pm \in BitsModels /\ pmCall = [op |-> "pendingBits"]
     \/ pm = BinProbModel_New /\ \E r \in RenormRanges : pmCall = [op |-> "pendingRenorm", range |-> r]
  /\ IsIdle

\* m.estFracBits( 0 ) and m.estFracBits( 1 )
EstFracBits ==
  /\ pmCall.op = "pendingBits"
  /\ pmCall' = [op |-> "estFracBits", q |-> BinProbModel_Std_state(pm),
                bits |-> getFracBitsArray(pm)]
  /\ UNCHANGED << pm, nBins, regVars, storeVars >>
  /\ UNCHANGED isVars

\* numBits = m_RenormTable_32[range >> 3]; range <<= numBits
Renorm ==
  /\ pmCall.op = "pendingRenorm"
  /\ pmCall' = [op |-> "renorm", range |-> pmCall.range,
                numBits |-> RenormShift(pmCall.range),
                scaled |-> Renormalised(pmCall.range)]
  /\ UNCHANGED << pm, nBins, regVars, storeVars >>
  /\ UNCHANGED isVars

NextTables ==
  \/ EstFracBits
  \/ Renorm

SpecTables == InitTables /\ [][NextTables]_vars

\* C21: for every quantised probability q in 0..255 both bit costs of
\* m_binFracBits[q] are above zero, and the bin that is the less likely one
\* costs at least as much as the other: bin 1 when q < 128 (the estimates add
\* up to less than 2^15), bin 0 when q >= 128.
C21_BitCosts ==
  pmCall.op = "estFracBits" =>
    /\ pmCall.q \in 0..255
    /\ pmCall.q < 128 <=> pm.state0 + pm.state1 < 2 ^ PROB_BITS
    /\ pmCall.bits[1] > 0 /\ pmCall.bits[2] > 0
    /\ pmCall.q < 128 => pmCall.bits[2] >= pmCall.bits[1]
    /\ pmCall.q >= 128 => pmCall.bits[1] >= pmCall.bits[2]

\* the costs of the most skewed model towards bin 1 were read
C21_Witness ==
  /\ pmCall.op = "estFracBits"
  /\ pmCall.q = 255
  /\ pmCall.bits = << 294912, 92 >>

\* C29: m_RenormTable_32 does not increase with its index, and for every range
\* r in 8..255, and in 4..7 for index 0, shifting r left by the count
\* m_RenormTable_32[r >> 3] gives a value in 256..511: the count is the number
\* of bits that bring r to 9 bits.
C29_Renorm ==
  pmCall.op = "renorm" =>
    /\ pmCall.range >= 4 =>
         /\ pmCall.scaled \in 256..511
         /\ pmCall.scaled = pmCall.range * (2 ^ pmCall.numBits)
    /\ \A i \in 0..31 :
         i > pmCall.range \div 8 => m_RenormTable_32[i + 1] <= pmCall.numBits

\* a range of the first class, which is shifted by six bits
C29_Witness ==
  /\ pmCall = [op |-> "renorm", range |-> 5, numBits |-> 6, scaled |-> 320]

(* ---------------------------------------------------------------------- *)
(* The init tables after the registration                                 *)
(* ---------------------------------------------------------------------- *)

\* C22: once the static initialisation is complete, no construction, copy,
\* init (with its getInitTable calls), setWinSizes, loadPStates, savePStates
\* or coded bin on any Ctx object changes the length or a value of any of the
\* four init tables, nor NumberOfContexts: every operation of every
\* interleaving reads the tables the registration left.
C22_TablesImmutable ==
  [][/\ sm_InitTables' = sm_InitTables
     /\ NumberOfContexts' = NumberOfContexts
     /\ sm_InitTables = StaticInit.tables
     /\ \A t \in 1..(NUMBER_OF_SLICE_TYPES + 1) : Len(sm_InitTables'[t]) = NumberOfContexts]_vars

\* the default-constructed ctxB was handed to init after ctxA was initialised
\* and saved
C22_Witness ==
  /\ nOps = MaxOps
  /\ lastOp.op = "init" /\ lastOp.obj = "ctxB" /\ ~lastOp.ok /\ lastOp.initId = 0
  /\ hist["ctxB"].origin = "default"
  /\ hist["ctxA"].ops # << >>
  /\ Len(probStates) = 3
  /\ sm_InitTables[1] = << 197, 214, 216 >>

\* C30: an addCtxSet call with a row that has another number of values than
\* the first row fails, and after the failed call the four init tables have
\* equal lengths and the contents they had before the call.
C30_RejectedLeavesTables ==
  /\ \A g \in GroupInputs :
       (\E r \in 1..Len(g.rows) : Len(g.rows[r]) # Len(g.rows[1])) =>
         ~addCtxSet(sm_InitTables, g.rows).ok
  /\ regFail # None =>
       /\ sm_InitTables = regFail.before
       /\ \A t \in 1..(NUMBER_OF_SLICE_TYPES + 1) : Len(sm_InitTables[t]) = Len(sm_InitTables[1])

(* ---------------------------------------------------------------------- *)
(* IntraSearch: construction, init, destroy, destruction                  *)
(* ---------------------------------------------------------------------- *)

\* pointer values: nullptr, an indeterminate value (a member no constructor
\* initialises), or the number g >= 1 of the init call that allocated the target
nullptr == 0
Indeterminate == -1

MAX_NUM_TBLOCKS == 3
\* gp_sizeIdxInfo->numWidths() and numHeights(): the size classes followed
numWidths == 3
numHeights == 2
uiNumLayersToAllocateSplit == 1
uiNumLayersToAllocateFull == 1
uiNumSaveLayersToAllocate == 2

\* an allocation: the member it hangs from, its indices (-1 where there is none)
\* and the init call that made it
Alloc(buf, w, h, layer, g) == [buf |-> buf, w |-> w, h |-> h, layer |-> layer, gen |-> g]

\* gp_sizeIdxInfo->isCuSize( sizeFrom( width ) ) && ...isCuSize( sizeFrom( height ) )
isCuSize(cu, width, height) == width \in cu /\ height \in cu

\* what init allocates with new / create, in call number g
IntraSearch_init_allocs(cu, g) ==
  { Alloc("m_tmpStorageLCU", -1, -1, -1, g) }
  \cup { Alloc("m_pSharedPredTransformSkip", ch, -1, -1, g) : ch \in 0..(MAX_NUM_TBLOCKS - 1) }
  \cup { Alloc(t, -1, -1, -1, g) : t \in {"m_pBestCS", "m_pTempCS", "m_pFullCS", "m_pSplitCS"} }
  \cup { Alloc(t, width, -1, -1, g) :
           t \in {"m_pBestCS", "m_pTempCS", "m_pFullCS", "m_pSplitCS"}, width \in 0..(numWidths - 1) }
  \cup { Alloc(t, c[1], c[2], -1, g) :
           t \in {"m_pBestCS", "m_pTempCS", "m_pFullCS", "m_pSplitCS"},
           c \in { d \in (0..(numWidths - 1)) \X (0..(numHeights - 1)) : isCuSize(cu, d[1], d[2]) } }
  \cup { Alloc("m_pFullCS", c[1], c[2], layer, g) :
           layer \in 0..(uiNumLayersToAllocateFull - 1),
           c \in { d \in (0..(numWidths - 1)) \X (0..(numHeights - 1)) : isCuSize(cu, d[1], d[2]) } }
  \cup { Alloc("m_pSplitCS", c[1], c[2], layer, g) :
           layer \in 0..(uiNumLayersToAllocateSplit - 1),
           c \in { d \in (0..(numWidths - 1)) \X (0..(numHeights - 1)) : isCuSize(cu, d[1], d[2]) } }
  \cup { Alloc("m_pSaveCS", -1, -1, -1, g) }
  \cup { Alloc("m_pSaveCS", depth, -1, -1, g) : depth \in 0..(uiNumSaveLayersToAllocate - 1) }

\* IntraSearch::IntraSearch(): m_pTempCS and m_pSaveCS are not in the initialiser list
IntraSearch_New(cu) ==
  [m_pSplitCS |-> nullptr, m_pFullCS |-> nullptr, m_pBestCS |-> nullptr,
   m_pTempCS |-> Indeterminate, m_pSaveCS |-> Indeterminate,
   m_pcEncCfg |-> nullptr, m_CABACEstimator |-> nullptr, m_CtxCache |-> nullptr,
   m_isInitialized |-> FALSE,
   m_pSharedPredTransformSkip |-> [ch \in 0..(MAX_NUM_TBLOCKS - 1) |-> nullptr],
   m_tmpStorageLCU |-> nullptr,
   alive |-> TRUE, cuSizes |-> cu, heap |-> {}, undefined |-> FALSE,
   nInit |-> 0, nDestroy |-> 0]

\* IntraSearch::init after its CHECK: the call number is the pointer value
IntraSearch_init(obj) ==
  LET g == obj.nInit + 1
  IN  [obj EXCEPT !.m_pcEncCfg = 1, !.m_CABACEstimator = 1, !.m_CtxCache = 1,
                  !.m_tmpStorageLCU = g,
                  !.m_pSharedPredTransformSkip = [ch \in 0..(MAX_NUM_TBLOCKS - 1) |-> g],
                  !.m_pBestCS = g, !.m_pTempCS = g, !.m_pFullCS = g, !.m_pSplitCS = g,
                  !.m_pSaveCS = g,
                  !.heap = @ \cup IntraSearch_init_allocs(obj.cuSizes, g),
                  !.m_isInitialized = TRUE,
                  !.nInit = g]

\* what destroy releases with delete / destroy, found through the pointers
IntraSearch_destroy_frees(obj) ==
  (IF obj.m_pcEncCfg # nullptr
   THEN { Alloc("m_pSaveCS", layer, -1, -1, obj.m_pSaveCS) :
            layer \in 0..(uiNumSaveLayersToAllocate - 1) }
        \cup { Alloc("m_pSplitCS", c[1], c[2], layer, obj.m_pSplitCS) :
                 layer \in 0..(uiNumLayersToAllocateSplit - 1),
                 c \in { d \in (0..(numWidths - 1)) \X (0..(numHeights - 1)) :
                           isCuSize(obj.cuSizes, d[1], d[2]) } }
        \cup { Alloc("m_pFullCS", c[1], c[2], layer, obj.m_pFullCS) :
                 layer \in 0..(uiNumLayersToAllocateFull - 1),
                 c \in { d \in (0..(numWidths - 1)) \X (0..(numHeights - 1)) :
                           isCuSize(obj.cuSizes, d[1], d[2]) } }
        \cup { Alloc(t, c[1], c[2], -1, obj[t]) :
                 t \in {"m_pSplitCS", "m_pFullCS", "m_pBestCS", "m_pTempCS"},
                 c \in { d \in (0..(numWidths - 1)) \X (0..(numHeights - 1)) :
                           isCuSize(obj.cuSizes, d[1], d[2]) } }
        \cup { Alloc(t, width, -1, -1, obj[t]) :
                 t \in {"m_pSplitCS", "m_pFullCS", "m_pTempCS", "m_pBestCS"},
                 width \in 0..(numWidths - 1) }
        \cup { Alloc(t, -1, -1, -1, obj[t]) :
                 t \in {"m_pSplitCS", "m_pFullCS", "m_pBestCS", "m_pTempCS", "m_pSaveCS"} }
   ELSE {})
  \cup { Alloc("m_pSharedPredTransformSkip", ch, -1, -1, obj.m_pSharedPredTransformSkip[ch]) :
           ch \in { k \in 0..(MAX_NUM_TBLOCKS - 1) : obj.m_pSharedPredTransformSkip[k] # nullptr } }
  \cup (IF obj.m_tmpStorageLCU # nullptr
        THEN { Alloc("m_tmpStorageLCU", -1, -1, -1, obj.m_tmpStorageLCU) } ELSE {})

\* the body of destroy up to m_tmpStorageLCU.destroy(): releasing through a
\* null or indeterminate table pointer, or what is not allocated, is undefined
IntraSearch_destroy_release(obj) ==
  [obj EXCEPT !.undefined =
                 \/ @
                 \/ /\ obj.m_pcEncCfg # nullptr
                    /\ \E t \in {"m_pSplitCS", "m_pFullCS", "m_pBestCS", "m_pTempCS", "m_pSaveCS"} :
                         obj[t] < 1
                 \/ ~(IntraSearch_destroy_frees(obj) \subseteq obj.heap),
              !.heap = @ \ IntraSearch_destroy_frees(obj),
              !.m_pSplitCS = nullptr, !.m_pFullCS = nullptr,
              !.m_pBestCS = nullptr, !.m_pTempCS = nullptr,
              !.m_pSaveCS = nullptr,
              !.m_pSharedPredTransformSkip = [ch \in 0..(MAX_NUM_TBLOCKS - 1) |-> nullptr],
              !.m_tmpStorageLCU = nullptr,
              !.nDestroy = @ + 1]

\* destroy leaving m_isInitialized as it is
IntraSearch_destroy_KeepsFlag(obj) == IntraSearch_destroy_release(obj)

\* IntraSearch::destroy after its CHECK
IntraSearch_destroy(obj) ==
  [IntraSearch_destroy_release(obj) EXCEPT !.m_isInitialized = FALSE]

\* at most MaxInits init calls that pass the CHECK are followed
MaxInits == 3

InitLife ==
  /\ sm_InitTables = sm_InitTables_New
  /\ NumberOfContexts = 0
  /\ regPc = "done"
  /\ regLog = << >>
  /\ regFail = None
  /\ merged = None
  /\ StoreIdle
  /\ PmIdle
  /\ \E cu \in SUBSET (0..(numWidths - 1)) : is = IntraSearch_New(cu)
  /\ est = None
  /\ frame = [op |-> "IntraSearch", ok |-> TRUE]

\* intraSearch.init( pcEncCfg, ... ) with a configuration
IS_init ==
  /\ is.alive
  /\ is.nInit < MaxInits
  /\ IF is.m_isInitialized
     THEN /\ frame' = [op |-> "init", ok |-> FALSE]
          /\ UNCHANGED is
     ELSE /\ frame' = [op |-> "init", ok |-> TRUE]
          /\ is' = IntraSearch_init(is)
  /\ UNCHANGED << est, regVars, storeVars, pmVars >>

\* intraSearch.destroy()
IS_destroy ==
  /\ is.alive
  /\ IF ~is.m_isInitialized
     THEN /\ frame' = [op |-> "destroy", ok |-> FALSE]
          /\ UNCHANGED is
     ELSE /\ frame' = [op |-> "destroy", ok |-> TRUE]
          /\ is' = IntraSearch_destroy(is)
  /\ UNCHANGED << est, regVars, storeVars, pmVars >>

\* IntraSearch::~IntraSearch()
IS_Destructor ==
  /\ is.alive
  /\ is' = [(IF is.m_isInitialized THEN IntraSearch_destroy(is) ELSE is) EXCEPT !.alive = FALSE]
  /\ frame' = [op |-> "~IntraSearch", ok |-> TRUE]
  /\ UNCHANGED << est, regVars, storeVars, pmVars >>

NextLife ==
  \/ IS_init
  \/ IS_destroy
  \/ IS_Destructor

SpecLife == InitLife /\ [][NextLife]_vars

\* C28: IntraSearch lifecycle. init on an initialised object and destroy on a
\* non-initialised one fail and change nothing; an init that passes its CHECK
\* leaves the object initialised and a destroy that passes leaves it not
\* initialised with the five coding-structure table pointers and every shared
\* transform-skip buffer null, so passing inits and destroys strictly
\* alternate and init passes again after destroy; the destructor runs destroy
\* exactly when the object is initialised; what init allocated is on the heap
\* while initialised and released, each buffer once and none through an
\* invalid pointer, when not.
C28_Lifecycle ==
  [][ /\ (IS_init /\ is.m_isInitialized) => (~frame'.ok /\ is' = is)
      /\ (IS_destroy /\ ~is.m_isInitialized) => (~frame'.ok /\ is' = is)
      /\ (IS_init /\ ~is.m_isInitialized) =>
            (frame'.ok /\ is'.m_isInitialized /\ is'.nInit = is.nInit + 1)
      /\ (IS_destroy /\ is.m_isInitialized) =>
            /\ frame'.ok
            /\ ~is'.m_isInitialized
            /\ is'.nDestroy = is.nDestroy + 1
            /\ \A t \in {"m_pSplitCS", "m_pFullCS", "m_pBestCS", "m_pTempCS", "m_pSaveCS"} :
                 is'[t] = nullptr
            /\ \A ch \in 0..(MAX_NUM_TBLOCKS - 1) : is'.m_pSharedPredTransformSkip[ch] = nullptr
      /\ IS_Destructor =>
            is'.nDestroy = is.nDestroy + (IF is.m_isInitialized THEN 1 ELSE 0)
      /\ is'.nInit - is'.nDestroy = (IF is'.m_isInitialized THEN 1 ELSE 0)
      /\ is'.heap = (IF is'.m_isInitialized
                     THEN IntraSearch_init_allocs(is'.cuSizes, is'.nInit) ELSE {})
      /\ ~is'.undefined
    ]_vars

\* an init after a destroy has passed and a further init has then failed
C28_Witness ==
  /\ frame = [op |-> "init", ok |-> FALSE]
  /\ is.nInit = 2
  /\ is.nDestroy = 1
  /\ is.m_isInitialized
  /\ is.cuSizes # {}

(***************************************************************************)
(* The estimator's context during the intra search.  A context is a        *)
(* function from context sets to the value of their models; what coding    *)
(* produces is a value no earlier context had.                             *)
(***************************************************************************)

\* the context sets the search restores one by one, and two of the others
CtxSets ==
  {"MipFlag", "MipMode", "ISPMode", "IntraLumaPlanarFlag", "IntraLumaMpmFlag",
   "MultiRefLineIdx", "IntraChromaPredMode", "QtCbf"}

\* the build switch of the inter-chroma transform
JVET_O0105_ICT == 1

\* the models of a context taken from the cache and not assigned yet
Stale == -1

\* TempCtx( m_CtxCache ): whatever the cache element held
TempCtx_New == [s \in CtxSets |-> Stale]

\* an assignment that copies no model
Ctx_assign_Keep(dst, src) == dst

\* TempCtx( m_CtxCache, ctx ) and ctx = other: every model is copied
Ctx_assign(dst, src) == src

\* ctx = SubCtx( set, src ) copying nothing
Ctx_assignSub_Nothing(dst, set, src) == dst

\* ctx = SubCtx( set, src ): the models of the set are copied, no other
Ctx_assignSub(dst, set, src) == [dst EXCEPT ![set] = src[set]]

\* TempCtx( m_CtxCache, SubCtx( set, ctx ) )
TempCtx_Sub(set, ctx) == Ctx_assignSub(TempCtx_New, set, ctx)

\* bins are coded with the models of the sets in touched
Coded(ctx, touched, k) == [s \in CtxSets |-> IF s \in touched THEN k ELSE ctx[s]]

\* CABACWriter::intra_luma_pred_mode: nothing for BDPCM, the MIP flag and
\* mode for MIP, else MIP flag, reference line, ISP mode, MPM flag and, for
\* an MPM, the planar flag
intra_luma_pred_mode(ctx, bdpcmMode, mipFlag, mpm, k) ==
  IF bdpcmMode THEN ctx
  ELSE IF mipFlag THEN Coded(ctx, {"MipFlag", "MipMode"}, k)
  ELSE Coded(ctx, {"MipFlag", "MultiRefLineIdx", "ISPMode", "IntraLumaMpmFlag"}
                    \cup (IF mpm THEN {"IntraLumaPlanarFlag"} ELSE {}), k)

\* IntraSearch::xFracModeBitsIntra for luma
xFracModeBitsIntra(ctx, mhIntraFlag, bdpcmMode, mipFlag, mpm, k) ==
  IF mhIntraFlag THEN ctx ELSE intra_luma_pred_mode(ctx, bdpcmMode, mipFlag, mpm, k)

\* the sets restored before xFracModeBitsIntra at lines 492, 565, 622 and 656
RestoredAt(site) ==
  IF site = 656 THEN <<"MipFlag", "MipMode">>
  ELSE <<"MipFlag", "ISPMode", "IntraLumaPlanarFlag", "IntraLumaMpmFlag", "MultiRefLineIdx">>

\* the early return restoring what the regular candidates restore
RestoredAtReturn_Regular == RestoredAt(492)

\* the sets restored before the early return at lines 859-864
RestoredAtReturn ==
  <<"MipFlag", "MipMode", "ISPMode", "IntraLumaPlanarFlag", "IntraLumaMpmFlag", "MultiRefLineIdx">>

\* the snapshot estIntraPredLumaQT keeps for a set
SnapshotOf(f, set) ==
  CASE set = "MipFlag" -> f.ctxStartMipFlag
    [] set = "MipMode" -> f.ctxStartMipMode
    [] set = "ISPMode" -> f.ctxStartIspMode
    [] set = "IntraLumaPlanarFlag" -> f.ctxStartPlanarFlag
    [] set = "IntraLumaMpmFlag" -> f.ctxStartIntraMode
    [] set = "MultiRefLineIdx" -> f.ctxStartMrlIdx

RECURSIVE RestoreSets(_, _, _)
\* m_CABACEstimator->getCtx() = SubCtx( set, snapshot ), one set after another
RestoreSets(ctx, f, sets) ==
  IF sets = << >> THEN ctx
  ELSE RestoreSets(Ctx_assignSub(ctx, Head(sets), SnapshotOf(f, Head(sets))), f, Tail(sets))

\* candidates of a pre-selection and modes of a full-RD loop that are followed
MaxCands == 2
MaxModes == 2

\* the object the search runs on
Searcher == IntraSearch_init(IntraSearch_New(0..(numWidths - 1)))

\* the context at the entry of a search function
CtxAtEntry == [s \in CtxSets |-> 0]

(***************************************************************************)
(* IntraSearch::estIntraPredLumaQT                                         *)
(***************************************************************************)

Frame_estIntraPredLumaQT ==
  [fn |-> "estIntraPredLumaQT", pc |-> "entry", entry |-> CtxAtEntry, n |-> 0,
   ctxStart |-> TempCtx_New, ctxStartMipFlag |-> TempCtx_New,
   ctxStartMipMode |-> TempCtx_New, ctxStartIspMode |-> TempCtx_New,
   ctxStartPlanarFlag |-> TempCtx_New, ctxStartIntraMode |-> TempCtx_New,
   ctxStartMrlIdx |-> TempCtx_New,
   site |-> 0, mipFlag |-> FALSE, nCand |-> 0, mode |-> 0, ret |-> "none"]

\* lines 282-288
Luma_Snapshot(f, ctx) ==
  [f EXCEPT !.pc = "presel",
            !.ctxStart = Ctx_assign(TempCtx_New, ctx),
            !.ctxStartMipFlag = TempCtx_Sub("MipFlag", ctx),
            !.ctxStartMipMode = TempCtx_Sub("MipMode", ctx),
            !.ctxStartIspMode = TempCtx_Sub("ISPMode", ctx),
            !.ctxStartPlanarFlag = TempCtx_Sub("IntraLumaPlanarFlag", ctx),
            !.ctxStartIntraMode = TempCtx_Sub("IntraLumaMpmFlag", ctx),
            !.ctxStartMrlIdx = TempCtx_Sub("MultiRefLineIdx", ctx)]

L_Snapshot ==
  /\ frame.fn = "estIntraPredLumaQT"
  /\ frame.pc = "entry"
  /\ frame' = Luma_Snapshot(frame, est)
  /\ UNCHANGED << est, is, regVars, storeVars, pmVars >>

\* lines 492-496, 565-569, 622-626 (regular candidates), 656-657 (MIP)
L_Restore ==
  /\ frame.fn = "estIntraPredLumaQT"
  /\ frame.pc = "presel"
  /\ frame.nCand < MaxCands
  /\ \E site \in {492, 565, 622, 656} :
       /\ est' = RestoreSets(est, frame, RestoredAt(site))
       /\ frame' = [frame EXCEPT !.pc = "xFracModeBitsIntra", !.site = site,
                                 !.mipFlag = (site = 656)]
  /\ UNCHANGED << is, regVars, storeVars, pmVars >>

\* lines 498, 571, 628, 659
L_xFracModeBitsIntra ==
  /\ frame.fn = "estIntraPredLumaQT"
  /\ frame.pc = "xFracModeBitsIntra"
  /\ \E mhIntraFlag \in BOOLEAN, mpm \in BOOLEAN :
       est' = xFracModeBitsIntra(est, mhIntraFlag, FALSE, frame.mipFlag, mpm, frame.n + 1)
  /\ frame' = [frame EXCEPT !.pc = "presel", !.n = @ + 1, !.nCand = @ + 1]
  /\ UNCHANGED << is, regVars, storeVars, pmVars >>

\* lines 853-866: no candidate survives
L_ReturnFalse ==
  /\ frame.fn = "estIntraPredLumaQT"
  /\ frame.pc = "presel"
  /\ est' = RestoreSets(est, frame, RestoredAtReturn)
  /\ frame' = [frame EXCEPT !.pc = "done", !.ret = "false"]
  /\ UNCHANGED << is, regVars, storeVars, pmVars >>

\* lines 957-1004: a mode of the full-RD loop left with continue
L_Continue ==
  /\ frame.fn = "estIntraPredLumaQT"
  /\ frame.pc \in {"presel", "fullrd"}
  /\ frame.mode < MaxModes
  /\ frame' = [frame EXCEPT !.pc = "fullrd", !.mode = @ + 1]
  /\ UNCHANGED << est, is, regVars, storeVars, pmVars >>

\* lines 1009-1010
L_ModeRestore ==
  /\ frame.fn = "estIntraPredLumaQT"
  /\ frame.pc \in {"presel", "fullrd"}
  /\ frame.mode < MaxModes
  /\ est' = Ctx_assign(est, frame.ctxStart)
  /\ frame' = [frame EXCEPT !.pc = "xRecurIntraCodingLumaQT"]
  /\ UNCHANGED << is, regVars, storeVars, pmVars >>

\* lines 1012-1095: the mode is coded by xRecurIntraCodingLumaQT
L_ModeCode ==
  /\ frame.fn = "estIntraPredLumaQT"
  /\ frame.pc = "xRecurIntraCodingLumaQT"
  /\ est' = Coded(est, CtxSets, frame.n + 1)
  /\ frame' = [frame EXCEPT !.pc = "fullrd", !.n = @ + 1, !.mode = @ + 1]
  /\ UNCHANGED << is, regVars, storeVars, pmVars >>

\* lines 1107-1110
L_Return ==
  /\ frame.fn = "estIntraPredLumaQT"
  /\ frame.pc \in {"presel", "fullrd"}
  /\ est' = Ctx_assign(est, frame.ctxStart)
  /\ \E validReturn \in {"true", "false"} :
       frame' = [frame EXCEPT !.pc = "done", !.ret = validReturn]
  /\ UNCHANGED << is, regVars, storeVars, pmVars >>

(***************************************************************************)
(* IntraSearch::estIntraPredChromaQT                                       *)
(***************************************************************************)

Frame_estIntraPredChromaQT ==
  [fn |-> "estIntraPredChromaQT", pc |-> "entry", entry |-> CtxAtEntry, n |-> 0,
   ctxStart |-> TempCtx_New, mode |-> 0, ret |-> "none"]

\* line 1118
C_Snapshot ==
  /\ frame.fn = "estIntraPredChromaQT"
  /\ frame.pc = "entry"
  /\ frame' = [frame EXCEPT !.pc = "modes", !.ctxStart = Ctx_assign(TempCtx_New, est)]
  /\ UNCHANGED << est, is, regVars, storeVars, pmVars >>

\* lines 1304-1314: a chroma mode left with continue
C_Continue ==
  /\ frame.fn = "estIntraPredChromaQT"
  /\ frame.pc = "modes"
  /\ frame.mode < MaxModes
  /\ frame' = [frame EXCEPT !.mode = @ + 1]
  /\ UNCHANGED << est, is, regVars, storeVars, pmVars >>

\* lines 1315-1318
C_ModeRestore ==
  /\ frame.fn = "estIntraPredChromaQT"
  /\ frame.pc = "modes"
  /\ frame.mode < MaxModes
  /\ est' = Ctx_assign(est, frame.ctxStart)
  /\ frame' = [frame EXCEPT !.pc = "xRecurIntraChromaCodingQT"]
  /\ UNCHANGED << is, regVars, storeVars, pmVars >>

\* lines 1320-1334: the mode is coded; unless the loop continues, the
\* context is restored when transform skip is in use and the bits are counted
C_ModeCode ==
  /\ frame.fn = "estIntraPredChromaQT"
  /\ frame.pc = "xRecurIntraChromaCodingQT"
  /\ \E continues \in BOOLEAN, useTransformSkip \in BOOLEAN :
       LET coded == Coded(est, CtxSets, frame.n + 1)
       IN  IF continues
           THEN /\ est' = coded
                /\ frame' = [frame EXCEPT !.pc = "modes", !.n = @ + 1, !.mode = @ + 1]
           ELSE /\ est' = Coded(IF useTransformSkip THEN Ctx_assign(coded, frame.ctxStart)
                                ELSE coded, CtxSets, frame.n + 2)
                /\ frame' = [frame EXCEPT !.pc = "modes", !.n = @ + 2, !.mode = @ + 1]
  /\ UNCHANGED << is, regVars, storeVars, pmVars >>

\* lines 1395-1401
C_Return ==
  /\ frame.fn = "estIntraPredChromaQT"
  /\ frame.pc = "modes"
  /\ est' = Ctx_assign(est, frame.ctxStart)
  /\ frame' = [frame EXCEPT !.pc = "done", !.ret = "void"]
  /\ UNCHANGED << is, regVars, storeVars, pmVars >>

(***************************************************************************)
(* IntraSearch::xRecurIntraCodingLumaQT                                    *)
(***************************************************************************)

\* the costs of candidates that are followed; MAX_DOUBLE is above them all
MaxCost == 2
MAX_DOUBLE == MaxCost + 1

\* first of the MTS indices after DCT2 (0) and transform skip (1), and the
\* last one that is followed (the source goes up to 5)
MTS_DST7_DST7 == 2
MaxMtsIdx == 3

TrMode(first, second) == [first |-> first, second |-> second]

\* lines 2253-2282: the transform modes of the unsplit TU
TrModes(useLFNST, mtsFlag, checkTransformSkip, tsAllowed, mtsAllowed) ==
  IF useLFNST
  THEN IF ~mtsFlag /\ checkTransformSkip
       THEN << TrMode(0, TRUE), TrMode(1, TRUE) >> ELSE << >>
  ELSE << TrMode(0, TRUE) >>
       \o (IF tsAllowed THEN << TrMode(1, TRUE) >> ELSE << >>)
       \o (IF mtsAllowed THEN [i \in 1..(MaxMtsIdx - MTS_DST7_DST7 + 1) |->
                                 TrMode(MTS_DST7_DST7 + i - 1, TRUE)] ELSE << >>)

\* lines 2218-2219, 2227-2228, 2243-2300: the state before the candidate loop
Frame_xRecurIntraCodingLumaQT(bCheckSplit, useLFNST, mtsFlag, cts, tsAllowed, mtsAllowed, mtsCheckRangeFlag, mtsFirstCheckId, mtsLastCheckId, fast) ==
  LET trModes == TrModes(useLFNST, mtsFlag, cts, tsAllowed, mtsAllowed)
      nNumTransformCands == IF useLFNST THEN (IF mtsFlag THEN 4 ELSE 1) ELSE Len(trModes)
      numTransformIndexCands == IF mtsFlag THEN 4 ELSE 1
      firstCheckId == IF useLFNST /\ mtsCheckRangeFlag /\ mtsFlag THEN mtsFirstCheckId ELSE 0
      ctsInt == IF cts THEN 1 ELSE 0
      lastCheckId == IF useLFNST
                     THEN (IF mtsCheckRangeFlag /\ mtsFlag
                           THEN mtsLastCheckId + ctsInt
                           ELSE numTransformIndexCands - (firstCheckId + 1) + ctsInt)
                     ELSE trModes[nNumTransformCands].first
  IN  [fn |-> "xRecurIntraCodingLumaQT", pc |-> "entry", entry |-> CtxAtEntry, n |-> 0,
       ctxStart |-> TempCtx_New, ctxBest |-> TempCtx_New,
       bCheckSplit |-> bCheckSplit, useLFNST |-> useLFNST, mtsFlag |-> mtsFlag,
       checkTransformSkip |-> cts, tsAllowed |-> tsAllowed, fast |-> fast,
       trModes |-> trModes, nNumTransformCands |-> nNumTransformCands,
       firstCheckId |-> firstCheckId, lastCheckId |-> lastCheckId,
       isNotOnlyOneMode |-> (IF useLFNST THEN lastCheckId # firstCheckId
                             ELSE nNumTransformCands # 1),
       modeId |-> firstCheckId, mtsIdx |-> 0,
       dSingleCost |-> MAX_DOUBLE, bestModeId |-> 0,
       cbfBestMode |-> FALSE, cbfBestModeValid |-> FALSE, cbfDCT2 |-> TRUE,
       validReturnFull |-> FALSE,
       selected |-> FALSE, bestCtx |-> CtxAtEntry, coded |-> 0, ret |-> "none"]

\* lines 2227-2228
R_Snapshot ==
  /\ frame.fn = "xRecurIntraCodingLumaQT"
  /\ frame.pc = "entry"
  /\ frame' = [frame EXCEPT !.pc = (IF frame.bCheckSplit THEN "split" ELSE "candidates"),
                            !.ctxStart = Ctx_assign(TempCtx_New, est),
                            !.ctxBest = TempCtx_New]
  /\ UNCHANGED << est, is, regVars, storeVars, pmVars >>

\* the loop condition of line 2314
LumaLoopRuns(f) ==
  f.modeId <= (IF f.useLFNST THEN f.lastCheckId ELSE f.nNumTransformCands - 1)

\* lines 2314-2359: the next candidate is skipped, ends the loop, or is
\* about to be coded, after the restore of line 2358
R_Next ==
  /\ frame.fn = "xRecurIntraCodingLumaQT"
  /\ frame.pc = "candidates"
  /\ LumaLoopRuns(frame)
  /\ \E fastIsp \in BOOLEAN, mipSkip \in BOOLEAN :
       LET modeId == frame.modeId
           skipLFNST ==
             /\ frame.useLFNST
             /\ \/ modeId < frame.lastCheckId
                \/ (modeId = frame.lastCheckId /\ ~frame.checkTransformSkip)
             /\ frame.fast /\ modeId # 0 /\ ~frame.cbfBestMode /\ frame.cbfBestModeValid
           breaks ==
             /\ ~frame.useLFNST
             /\ (~frame.cbfDCT2 \/ (frame.fast /\ frame.bestModeId = 1))
           tr == frame.trModes[modeId + 1]
           skipStd ==
             /\ ~frame.useLFNST
             /\ \/ ~tr.second
                \/ (fastIsp /\ tr.first # 0 /\ (tr.first # 1 \/ ~frame.tsAllowed))
           mtsIdx == IF frame.useLFNST THEN frame.mtsIdx ELSE tr.first
           skipMip == mipSkip /\ mtsIdx # 0
       IN  IF breaks
           THEN /\ frame' = [frame EXCEPT !.modeId = frame.nNumTransformCands]
                /\ est' = est
           ELSE IF skipLFNST \/ skipStd
           THEN /\ frame' = [frame EXCEPT !.modeId = @ + 1]
                /\ est' = est
           ELSE IF skipMip
           THEN /\ frame' = [frame EXCEPT !.modeId = @ + 1, !.mtsIdx = mtsIdx]
                /\ est' = est
           ELSE /\ frame' = [frame EXCEPT !.pc = "xIntraCodingTUBlock", !.mtsIdx = mtsIdx]
                /\ est' = IF modeId # frame.firstCheckId /\ frame.isNotOnlyOneMode
                          THEN Ctx_assign(est, frame.ctxStart) ELSE est
  /\ UNCHANGED << is, regVars, storeVars, pmVars >>

\* lines 2418-2429, 2436-2447: lastCheckId becomes the mode of the last
\* candidate that xIntraCodingTUBlock left enabled
RECURSIVE LastEnabled(_, _, _)
LastEnabled(trModes, i, last) ==
  IF i > Len(trModes) THEN last
  ELSE LastEnabled(trModes, i + 1, IF trModes[i].second THEN trModes[i].first ELSE last)

\* the test of lines 2506 and 2537 taken as never true
BestIsNotLast_Never(f) == FALSE

\* the test of lines 2506 and 2537
BestIsNotLast(f) == f.bestModeId # f.lastCheckId

\* lines 2383-2523: the candidate is coded, its rate and cost are
\* determined, and it is compared with the best one so far
R_Code ==
  /\ frame.fn = "xRecurIntraCodingLumaQT"
  /\ frame.pc = "xIntraCodingTUBlock"
  /\ \E cbf \in BOOLEAN, cost \in 1..MaxCost,
        enabled \in [1..Len(frame.trModes) -> BOOLEAN] :
       LET modeId == frame.modeId
           prunes == /\ modeId = 0
                     /\ IF frame.useLFNST
                        THEN ~frame.mtsFlag /\ frame.checkTransformSkip
                        ELSE frame.nNumTransformCands > 1
           trModes == IF prunes
                      THEN [i \in 1..Len(frame.trModes) |->
                              TrMode(frame.trModes[i].first, enabled[i])]
                      ELSE frame.trModes
           lastCheckId == IF prunes THEN LastEnabled(trModes, 1, frame.lastCheckId)
                          ELSE frame.lastCheckId
           mtsIdx == IF frame.useLFNST
                     THEN (IF frame.mtsFlag THEN MTS_DST7_DST7 + modeId ELSE modeId)
                     ELSE frame.mtsIdx
           forbidden ==
             /\ IF frame.useLFNST
                THEN modeId = lastCheckId /\ modeId # 0 /\ frame.checkTransformSkip
                ELSE trModes[modeId + 1].first # 0
             /\ ~cbf
           singleCostTmp == IF forbidden THEN MAX_DOUBLE ELSE cost
           after == Coded(est, CtxSets, frame.n + 1)
           better == singleCostTmp < frame.dSingleCost
           f1 == [frame EXCEPT !.pc = "candidates", !.n = @ + 1, !.modeId = @ + 1,
                               !.coded = @ + 1,
                               !.trModes = trModes, !.lastCheckId = lastCheckId,
                               !.mtsIdx = mtsIdx]
           f2 == IF ~better THEN f1
                 ELSE IF frame.useLFNST
                 THEN [f1 EXCEPT !.dSingleCost = singleCostTmp, !.bestModeId = modeId,
                                 !.cbfBestMode = cbf, !.cbfBestModeValid = TRUE,
                                 !.validReturnFull = TRUE,
                                 !.selected = TRUE, !.bestCtx = after]
                 ELSE [f1 EXCEPT !.dSingleCost = singleCostTmp,
                                 !.bestModeId = trModes[modeId + 1].first,
                                 !.cbfDCT2 = IF trModes[modeId + 1].first = 0 THEN cbf ELSE @,
                                 !.selected = TRUE, !.bestCtx = after]
       IN  /\ (~prunes => enabled = [i \in 1..Len(frame.trModes) |-> TRUE])
           /\ est' = after
           /\ frame' = IF better /\ BestIsNotLast(f2)
                       THEN [f2 EXCEPT !.ctxBest = Ctx_assign(@, after)] ELSE f2
  /\ UNCHANGED << is, regVars, storeVars, pmVars >>

\* lines 2526-2563 and 2666-2683 of the unsplit TU
R_Select ==
  /\ frame.fn = "xRecurIntraCodingLumaQT"
  /\ frame.pc = "candidates"
  /\ ~LumaLoopRuns(frame)
  /\ est' = IF frame.useLFNST /\ ~frame.validReturnFull THEN est
            ELSE IF BestIsNotLast(frame) THEN Ctx_assign(est, frame.ctxBest)
            ELSE est
  /\ \E earlySkipISP \in BOOLEAN :
       frame' = [frame EXCEPT !.pc = "done",
                   !.ret = IF (~frame.useLFNST \/ frame.validReturnFull) /\ ~earlySkipISP
                           THEN "true" ELSE "false"]
  /\ UNCHANGED << is, regVars, storeVars, pmVars >>

\* lines 2566-2663: the TU is split; the parts are coded by the recursion
\* and, when the split is kept, the bits are counted from ctxStart
R_Split ==
  /\ frame.fn = "xRecurIntraCodingLumaQT"
  /\ frame.pc = "split"
  /\ \E splitIsSelected \in BOOLEAN :
       LET parts == Coded(est, CtxSets, frame.n + 1)
       IN  /\ est' = IF splitIsSelected
                     THEN Coded(Ctx_assign(parts, frame.ctxStart), CtxSets, frame.n + 2)
                     ELSE parts
           /\ frame' = [frame EXCEPT !.pc = "done", !.n = @ + 2,
                          !.ret = IF splitIsSelected THEN "true" ELSE "false"]
  /\ UNCHANGED << is, regVars, storeVars, pmVars >>

(***************************************************************************)
(* IntraSearch::xRecurIntraChromaCodingQT                                  *)
(***************************************************************************)

\* the joint-CbCr masks selectICTCandidates may return, at most two of them
JointCands == { << >>, << 3 >>, << 1, 3 >>, << 2, 1 >> }

\* a cost at or above every sum of two candidate costs
MaxCostCbCr == MAX_DOUBLE + MAX_DOUBLE

\* lines 2696-2700: with the inter-chroma transform the chroma of an ISP
\* block is coded as of any other one
lumaUsesISP(ispMode) == IF JVET_O0105_ICT = 1 THEN FALSE ELSE ispMode

Frame_xRecurIntraChromaCodingQT(valid, leaf, ispMode, checkCrossComponentPrediction, masks) ==
  [fn |-> "xRecurIntraChromaCodingQT", pc |-> "entry", entry |-> CtxAtEntry, n |-> 0,
   valid |-> valid, leaf |-> leaf, lumaUsesISP |-> lumaUsesISP(ispMode),
   totalModesToTest |-> (IF checkCrossComponentPrediction THEN 2 ELSE 1),
   jointCbfMasksToTest |-> masks,
   ctxStartTU |-> TempCtx_New, ctxStart |-> TempCtx_New, ctxBest |-> TempCtx_New,
   c |-> "Cb", currModeId |-> 0, dSingleCost |-> MAX_DOUBLE, bestModeId |-> 0,
   bestCostCb |-> MAX_DOUBLE, bestCostCr |-> MAX_DOUBLE, maxModesTested |-> 0,
   earlyExitISP |-> FALSE, bestCostSoFar |-> MAX_DOUBLE,
   j |-> 1, bestCostCbCr |-> MaxCostCbCr, bestJointCbCr |-> 0, lastIsBest |-> FALSE,
   stage |-> CtxAtEntry, compBest |-> CtxAtEntry, cbBest |-> CtxAtEntry,
   winner |-> CtxAtEntry, readStale |-> FALSE, ret |-> "none"]

\* lines 2690 and 2706-2710: no chroma block
Q_ReturnInvalid ==
  /\ frame.fn = "xRecurIntraChromaCodingQT"
  /\ frame.pc = "entry"
  /\ ~frame.valid
  /\ frame' = [frame EXCEPT !.pc = "done", !.ret = "cbfs"]
  /\ UNCHANGED << est, is, regVars, storeVars, pmVars >>

\* lines 3103-3153: the TU is split and the parts are coded by the recursion
Q_Split ==
  /\ frame.fn = "xRecurIntraChromaCodingQT"
  /\ frame.pc = "entry"
  /\ frame.valid /\ ~frame.leaf
  /\ est' = Coded(est, CtxSets, frame.n + 1)
  /\ frame' = [frame EXCEPT !.pc = "done", !.n = @ + 1, !.ret = "cbfs"]
  /\ UNCHANGED << is, regVars, storeVars, pmVars >>

\* lines 2745-2749
Q_Snapshot ==
  /\ frame.fn = "xRecurIntraChromaCodingQT"
  /\ frame.pc = "entry"
  /\ frame.valid /\ frame.leaf
  /\ frame' = [frame EXCEPT !.pc = "component",
                            !.ctxStartTU = Ctx_assign(TempCtx_New, est),
                            !.ctxStart = TempCtx_New, !.ctxBest = TempCtx_New]
  /\ UNCHANGED << est, is, regVars, storeVars, pmVars >>

\* lines 2836-2861: a component starts
Q_Component ==
  /\ frame.fn = "xRecurIntraChromaCodingQT"
  /\ frame.pc = "component"
  /\ frame' = [frame EXCEPT !.pc = "modes", !.dSingleCost = MAX_DOUBLE,
                 !.bestModeId = 0, !.currModeId = 0,
                 !.maxModesTested = Max(frame.totalModesToTest, @),
                 !.ctxStart = Ctx_assign(@, est), !.stage = est]
  /\ UNCHANGED << est, is, regVars, storeVars, pmVars >>

\* lines 2864-2883: the next cross-component candidate
Q_ModeRestore ==
  /\ frame.fn = "xRecurIntraChromaCodingQT"
  /\ frame.pc = "modes"
  /\ frame.currModeId < frame.totalModesToTest
  /\ est' = IF frame.currModeId + 1 # 1 THEN Ctx_assign(est, frame.ctxStart) ELSE est
  /\ frame' = [frame EXCEPT !.pc = "xIntraCodingTUBlock", !.currModeId = @ + 1]
  /\ UNCHANGED << is, regVars, storeVars, pmVars >>

\* lines 2885-2940: the candidate is coded and compared with the best one
Q_ModeCode ==
  /\ frame.fn = "xRecurIntraChromaCodingQT"
  /\ frame.pc = "xIntraCodingTUBlock"
  /\ \E alphaIsZero \in BOOLEAN, cost \in 1..MaxCost :
       LET after == Coded(est, CtxSets, frame.n + 1)
           forbidden == frame.currModeId - 1 = 1 /\ alphaIsZero
           isp == /\ ~forbidden
                  /\ frame.lumaUsesISP /\ frame.bestCostSoFar # MAX_DOUBLE /\ frame.c = "Cb"
           singleCostTmp == IF forbidden THEN MAX_DOUBLE ELSE cost
           left == IF isp THEN Ctx_assign(after, frame.ctxStart) ELSE after
           f1 == [frame EXCEPT !.pc = "modes", !.n = @ + 1]
       IN  /\ est' = left
           /\ frame' = IF singleCostTmp < frame.dSingleCost
                       THEN [f1 EXCEPT !.dSingleCost = singleCostTmp,
                                       !.bestModeId = frame.currModeId,
                                       !.bestCostCb = IF frame.c = "Cb" THEN singleCostTmp ELSE @,
                                       !.bestCostCr = IF frame.c = "Cr" THEN singleCostTmp ELSE @,
                                       !.ctxBest = Ctx_assign(@, left),
                                       !.compBest = after]
                       ELSE f1
  /\ UNCHANGED << is, regVars, storeVars, pmVars >>

\* the test of line 2956 taken as never true
SwitchToBestCb_Never(f) == FALSE

\* the test of line 2956
SwitchToBestCb(f) == f.c = "Cb" /\ f.bestModeId < f.totalModesToTest

\* lines 2945-2961 and, after Cr, 2963-2979: the component is done
Q_ComponentEnd ==
  /\ frame.fn = "xRecurIntraChromaCodingQT"
  /\ frame.pc = "modes"
  /\ frame.currModeId = frame.totalModesToTest
  /\ IF frame.lumaUsesISP /\ frame.dSingleCost > frame.bestCostSoFar /\ frame.c = "Cb"
     THEN /\ est' = Ctx_assign(est, frame.ctxStart)
          /\ frame' = [frame EXCEPT !.pc = "done", !.earlyExitISP = TRUE, !.ret = "cbfs"]
     ELSE /\ est' = IF SwitchToBestCb(frame) THEN Ctx_assign(est, frame.ctxBest) ELSE est
          /\ frame' =
               IF frame.c = "Cb"
               THEN [frame EXCEPT !.pc = "component", !.c = "Cr", !.cbBest = frame.compBest,
                        !.readStale = @ \/ (SwitchToBestCb(frame) /\ frame.ctxBest = TempCtx_New)]
               ELSE [frame EXCEPT !.pc = "joint", !.winner = frame.compBest,
                        !.bestCostCbCr = frame.bestCostCb + frame.bestCostCr,
                        !.bestJointCbCr = 0, !.lastIsBest = FALSE, !.j = 1]
  /\ UNCHANGED << is, regVars, storeVars, pmVars >>

\* lines 2980-2995: the next joint-CbCr candidate
Q_JointRestore ==
  /\ frame.fn = "xRecurIntraChromaCodingQT"
  /\ frame.pc = "joint"
  /\ frame.j <= Len(frame.jointCbfMasksToTest)
  /\ est' = Ctx_assign(est, frame.ctxStartTU)
  /\ frame' = [frame EXCEPT !.pc = "jointCbCr"]
  /\ UNCHANGED << is, regVars, storeVars, pmVars >>

\* lines 2997-3056: the joint candidate is coded and compared
Q_JointCode ==
  /\ frame.fn = "xRecurIntraChromaCodingQT"
  /\ frame.pc = "jointCbCr"
  /\ \E costTmp \in {1, MaxCost + MaxCost, MaxCostCbCr} :
       LET after == Coded(est, CtxSets, frame.n + 1)
           cbfMask == frame.jointCbfMasksToTest[frame.j]
           back == frame.jointCbfMasksToTest[Len(frame.jointCbfMasksToTest)]
           f1 == [frame EXCEPT !.pc = "joint", !.n = @ + 1, !.j = @ + 1]
       IN  /\ est' = after
           /\ frame' = IF costTmp < frame.bestCostCbCr
                       THEN IF cbfMask # back
                            THEN [f1 EXCEPT !.bestCostCbCr = costTmp, !.bestJointCbCr = cbfMask,
                                            !.ctxBest = Ctx_assign(@, after), !.winner = after]
                            ELSE [f1 EXCEPT !.bestCostCbCr = costTmp, !.bestJointCbCr = cbfMask,
                                            !.lastIsBest = TRUE, !.winner = after]
                       ELSE f1
  /\ UNCHANGED << is, regVars, storeVars, pmVars >>

\* lines 3059-3101 and 3155
Q_Return ==
  /\ frame.fn = "xRecurIntraChromaCodingQT"
  /\ frame.pc = "joint"
  /\ frame.j > Len(frame.jointCbfMasksToTest)
  /\ LET retrieves == /\ ~(frame.maxModesTested = 1 /\ frame.jointCbfMasksToTest = << >>)
                      /\ ~frame.lastIsBest
     IN  /\ est' = IF retrieves THEN Ctx_assign(est, frame.ctxBest) ELSE est
         /\ frame' = [frame EXCEPT !.pc = "done", !.ret = "cbfs",
                        !.readStale = @ \/ (retrieves /\ frame.ctxBest = TempCtx_New)]
  /\ UNCHANGED << is, regVars, storeVars, pmVars >>

(***************************************************************************)
(* The search functions, each called on an initialised IntraSearch          *)
(***************************************************************************)

SearchFrames ==
  { Frame_estIntraPredLumaQT, Frame_estIntraPredChromaQT }
  \cup { Frame_xRecurIntraCodingLumaQT(bCheckSplit, useLFNST, mtsFlag, cts, tsAllowed,
                                       mtsAllowed, range[1], range[2], range[3], fast) :
           bCheckSplit \in BOOLEAN, useLFNST \in BOOLEAN, mtsFlag \in BOOLEAN,
           cts \in BOOLEAN, tsAllowed \in BOOLEAN, mtsAllowed \in BOOLEAN,
           range \in { << FALSE, 0, 0 >>, << TRUE, 0, 1 >>, << TRUE, 2, 3 >> },
           fast \in BOOLEAN }
  \cup { Frame_xRecurIntraChromaCodingQT(valid, leaf, ispMode, cross, masks) :
           valid \in BOOLEAN, leaf \in BOOLEAN, ispMode \in BOOLEAN, cross \in BOOLEAN,
           masks \in JointCands }

InitSearch ==
  /\ sm_InitTables = sm_InitTables_New
  /\ NumberOfContexts = 0
  /\ regPc = "done"
  /\ regLog = << >>
  /\ regFail = None
  /\ merged = None
  /\ StoreIdle
  /\ PmIdle
  /\ is = Searcher
  /\ est = CtxAtEntry
  /\ frame \in SearchFrames

NextSearch ==
  \/ L_Snapshot
  \/ L_Restore
  \/ L_xFracModeBitsIntra
  \/ L_ReturnFalse
  \/ L_Continue
  \/ L_ModeRestore
  \/ L_ModeCode
  \/ L_Return
  \/ C_Snapshot
  \/ C_Continue
  \/ C_ModeRestore
  \/ C_ModeCode
  \/ C_Return
  \/ R_Snapshot
  \/ R_Next
  \/ R_Code
  \/ R_Select
  \/ R_Split
  \/ Q_ReturnInvalid
  \/ Q_Split
  \/ Q_Snapshot
  \/ Q_Component
  \/ Q_ModeRestore
  \/ Q_ModeCode
  \/ Q_ComponentEnd
  \/ Q_JointRestore
  \/ Q_JointCode
  \/ Q_Return

SpecSearch == InitSearch /\ [][NextSearch]_vars

\* the sets of a sequence of set names
SetsOf(sets) == { sets[i] : i \in 1..Len(sets) }

\* C23: when estIntraPredLumaQT has returned, at its normal end or with
\* false because no candidate survived, and when estIntraPredChromaQT has
\* returned, every context of the estimator has the value it had at the
\* entry of the function, whatever candidates were tried.
C23_RestoredOnReturn ==
  (frame.fn \in {"estIntraPredLumaQT", "estIntraPredChromaQT"} /\ frame.pc = "done")
    => est = frame.entry

\* the early return after a regular and a MIP candidate had their bits counted
C23_Witness ==
  /\ frame.fn = "estIntraPredLumaQT"
  /\ frame.pc = "done"
  /\ frame.ret = "false"
  /\ frame.nCand = MaxCands
  /\ frame.ctxStartMipMode["MipMode"] = est["MipMode"]
  /\ frame.n > 1

\* C24: every candidate of a search stage is coded from the context the
\* stage started with: the luma and chroma modes of the full-RD loops and
\* the transform candidates from the context at the entry of their
\* function, the cross-component candidates from the context their
\* component started with, the joint-CbCr candidates from the context at
\* the entry of the TU.
C24_SameStart ==
  [][ /\ L_ModeCode => est = frame.entry
      /\ C_ModeCode => est = frame.entry
      /\ R_Code => est = frame.entry
      /\ Q_ModeCode => est = frame.stage
      /\ Q_JointCode => est = frame.entry
    ]_vars

\* a transform candidate about to be coded after two others were
C24_Witness ==
  /\ frame.fn = "xRecurIntraCodingLumaQT"
  /\ frame.pc = "xIntraCodingTUBlock"
  /\ frame.coded = 2
  /\ est = frame.entry

\* C25: when xRecurIntraCodingLumaQT has checked the unsplit TU only and a
\* candidate was selected, the context on return is the one that the
\* evaluation of the selected candidate left.
C25_BestContext ==
  (/\ frame.fn = "xRecurIntraCodingLumaQT"
   /\ frame.pc = "done"
   /\ ~frame.bCheckSplit
   /\ frame.selected)
    => est = frame.bestCtx

\* the selected candidate was not the last one coded: ctxBest was restored
C25_Witness ==
  /\ frame.fn = "xRecurIntraCodingLumaQT"
  /\ frame.pc = "done"
  /\ ~frame.bCheckSplit
  /\ frame.selected
  /\ frame.coded > 1
  /\ est = frame.ctxBest
  /\ est["QtCbf"] < frame.n

\* C26: in a leaf call of xRecurIntraChromaCodingQT the Cr candidates are
\* coded from the context the best Cb candidate left, the context on return
\* is the one left by the winning alternative (the best Cr candidate after
\* the best Cb one, or the best joint-CbCr candidate), and ctxBest is not
\* read before it was assigned.
C26_ChromaContexts ==
  [][ /\ (Q_ModeCode /\ frame.c = "Cr") => est = frame.cbBest
      /\ Q_Return => (est' = frame.winner /\ ~frame'.readStale)
      /\ (Q_ComponentEnd /\ ~frame'.earlyExitISP) => ~frame'.readStale
    ]_vars

\* separate coding won against two joint candidates, Cb with its first mode
C26_Witness ==
  /\ frame.fn = "xRecurIntraChromaCodingQT"
  /\ frame.pc = "done"
  /\ frame.leaf /\ frame.valid
  /\ frame.totalModesToTest = 2
  /\ Len(frame.jointCbfMasksToTest) = 2
  /\ frame.bestJointCbCr = 0
  /\ frame.cbBest["QtCbf"] = 1
  /\ est = frame.winner

\* C27: in the pre-selection of estIntraPredLumaQT, when xFracModeBitsIntra
\* is about to be called, every context of the sets restored for the
\* candidate has the value it had at the entry of the function, and the
\* restore has changed no context of another set.
C27_SubRestore ==
  [][ L_Restore =>
        /\ \A s \in SetsOf(RestoredAt(frame'.site)) : est'[s] = frame.entry[s]
        /\ \A s \in CtxSets \ SetsOf(RestoredAt(frame'.site)) : est'[s] = est[s]
    ]_vars

\* a regular candidate about to have its bits counted after a MIP one had
C27_Witness ==
  /\ frame.fn = "estIntraPredLumaQT"
  /\ frame.pc = "xFracModeBitsIntra"
  /\ frame.site = 492
  /\ frame.nCand = 1
  /\ est["MipMode"] # frame.entry["MipMode"]
  /\ est["MipFlag"] = frame.entry["MipFlag"]

====
